---- MODULE Spec2Model ----
(***************************************************************************)
(* Model of the synthesis engine of edge-tts-universal: the Communicate    *)
(* classes (Node, isomorphic, browser), their per-segment WebSocket        *)
(* session, and the text segmenter of utils.ts.                            *)
(***************************************************************************)
EXTENDS Integers, Sequences, FiniteSets, TLC

\* ------------------------------------------------------------------ bounds
MaxSegs == 2
MaxGens == 2
MaxFrames == 4
MaxFramesOther == 2
MaxFramesGuard == 1
MaxRawOffset == 1
MaxUnits == 3
MaxByteLength == 6
MaxDrmCalls == 3
MaxClockTicks == 2
MaxWordCalls == 8
MaxSubCalls == 3
MaxWireUnits == 3
MaxSsml == 2
MaxVoices == 2
MaxFinds == 2
MaxHeaderLines == 2
MaxDuoFrames == 3

\* a retry may double the number of sessions of a stream
MaxSess == 2 * MaxSegs

\* ------------------------------------------------------- program constants
TurnEndDelay == 8750000

Variants == {"node", "isoNode", "isoBrowser", "browser"}
NodeWs == {"node", "isoNode"}

NoDate == -1

VARIABLES
  variant,            \* which Communicate class / runtime the instance is
  connectionTimeout,  \* options.connectionTimeout is set
  streamWasCalled,    \* state.streamWasCalled
  offsetCompensation, \* state.offsetCompensation
  lastDurationOffset, \* state.lastDurationOffset
  partialText,        \* state.partialText: index of the current segment
  textsState,         \* the splitTextByByteLength generator: active/done/threw
  clockSkewSeconds,   \* DRM.clockSkewSeconds
  gen,                \* state of each generator returned by stream()
  genErr,             \* error a generator threw
  owner,              \* generator that passed the one-shot guard (0: none)
  pc,                 \* position of the owner's body
  inCatch,            \* the running _stream() is the one inside the catch
  nSess,              \* number of _stream() invocations so far
  sessSeg,            \* segment each session synthesizes
  websocket,          \* readyState of each session's WebSocket
  messageQueue,       \* messageQueue of each _stream() invocation
  audioWasReceived,   \* audioWasReceived of each _stream() invocation
  openPromise,        \* the 'wait for open' promise of each session
  rejectReason,       \* reason the open promise was rejected with
  timer1,             \* browser: window.setTimeout of lines 248-254
  timer2,             \* browser: setTimeout of lines 367-374
  sent,               \* messages sent on each session's WebSocket
  tokenSkew,          \* clock skew the session's Sec-MS-GEC token was made with
  calls,              \* number of stream() calls the consumer makes in this run
  frameBudget,        \* number of frames the transports deliver in this run
  frameKinds,         \* which frames the service sends in this run
  blankText,          \* the constructor's text is empty once cleaned and trimmed
  nFrames,            \* frames delivered so far (bounded by frameBudget)
  yielded,            \* events the consumer received, in order
  pushed,             \* chunks the handlers queued, in order
  recvLog,            \* per session: what the frames received did, in order
  sessEnd,            \* how each _stream() invocation ended
  wsCause,            \* per session: transport failure the environment produced
  text,               \* splitTextByByteLength: the text argument, as bytes
  byteLength,         \* splitTextByByteLength: the byteLength argument
  buffer,             \* splitTextByByteLength: the remaining buffer
  splitAt,            \* splitTextByByteLength: the split point being adjusted
  ampersandIndex,     \* _adjustSplitPointForXmlEntity: ampersandIndex
  splitPc,            \* position of the splitTextByByteLength generator
  segments,           \* the segments the generator yielded, in order
  now,                \* DRM: Date.now() / 1000, the wall clock in seconds
  drmClockSkewSeconds,\* DRM.clockSkewSeconds as the DRM operations leave it
  tokens,             \* DRM: what each generateSecMsGec call hashed, in order
  drmLast,            \* DRM: the last operation called and its outcome
  nDrmCalls,          \* DRM: operations called so far
  nClockTicks,        \* DRM: seconds the wall clock advanced so far
  cues,               \* SubMaker.cues
  subKind,            \* SubMaker: which calls this run makes
  subLog,             \* SubMaker: the calls that returned, in order
  subLast,            \* SubMaker: the last call, its outcome, the cues before it
  nSubCalls,          \* SubMaker: calls made so far
  wireVariant,        \* wire: which class's 'message' listener decodes
  wire,               \* wire: the binary message the transport delivers
  wireLast,           \* wire: what the listener made of the message
  ttsOptions,         \* TTSConfig: the options Communicate was constructed with
  ttsConfig,          \* Communicate.ttsConfig
  ttsError,           \* TTSConfig: what the Communicate constructor threw
  ttsAgain,           \* TTSConfig: a second TTSConfig made from ttsConfig.voice
  ssmlSent,           \* TTSConfig: the mkssml results of the sessions, in order
  manager,            \* VoicesManager: how the instance was made
  voices,             \* VoicesManager.voices
  calledCreate,       \* VoicesManager.calledCreate
  findLast,           \* VoicesManager: the last find(), its filter and outcome
  nFinds,             \* VoicesManager: find() calls so far
  textMessage,        \* text frames: the text message the transport delivers
  textDecoded,        \* text frames: what each decoder returned for it
  listPc,             \* listVoices: position of the call
  requests,           \* listVoices: the HTTP requests issued, in order
  responses,          \* listVoices: what each request was answered with
  listError,          \* listVoices: the error the call rejected with
  cmpRun,             \* comparison: per class, the instance fed the common events
  cmpSegs,            \* comparison: number of segments of the text
  cmpSeg,             \* comparison: segment of the session the transport serves
  cmpTransport,       \* comparison: what the transport can still deliver
  cmpKinds,           \* comparison: which frames the service sends in this run
  cmpFed,             \* comparison: frames delivered so far
  blobState,          \* Blob frames: state.offsetCompensation and lastDurationOffset
  blobWs,             \* Blob frames: readyState of the session's WebSocket
  blobRecv,           \* Blob frames: the frames the transport delivered, in order
  blobPending,        \* Blob frames: the Blob.arrayBuffer() promises still pending
  blobQueue,          \* Blob frames: messageQueue, each item with its frame's number
  blobAudio,          \* Blob frames: audioWasReceived
  blobYielded,        \* Blob frames: what the consumer received, in order
  blobEnd,            \* Blob frames: how the session ended
  duoState,           \* two instances: state of each Communicate instance
  duoSess,            \* two instances: the running session of each instance
  duoOut,             \* two instances: what each stream() yielded and how it ended
  duoFed,             \* two instances: the transport events each instance got
  duoSkew,            \* two instances: DRM.clockSkewSeconds
  duoAgent            \* two instances: the module variable HttpsProxyAgent is set

engineVars == <<variant, connectionTimeout, streamWasCalled, offsetCompensation,
                lastDurationOffset, partialText, textsState, clockSkewSeconds,
                gen, genErr, owner, pc, inCatch, nSess, sessSeg, websocket,
                messageQueue, audioWasReceived, openPromise, rejectReason,
                timer1, timer2, sent, tokenSkew, calls, frameBudget, frameKinds, blankText, nFrames,
                yielded, pushed,
                recvLog, sessEnd, wsCause>>

splitVars == <<text, byteLength, buffer, splitAt, ampersandIndex, splitPc, segments>>

drmVars == <<now, drmClockSkewSeconds, tokens, drmLast, nDrmCalls, nClockTicks>>

\* what the operations of one component leave alone
subVars == <<cues, subKind, subLog, subLast, nSubCalls>>

wireVars == <<wireVariant, wire, wireLast>>

ttsVars == <<ttsOptions, ttsConfig, ttsError, ttsAgain, ssmlSent>>

vmVars == <<manager, voices, calledCreate, findLast, nFinds>>

textVars == <<textMessage, textDecoded>>

listVars == <<listPc, requests, responses, listError>>

cmpVars == <<cmpRun, cmpSegs, cmpSeg, cmpTransport, cmpKinds, cmpFed>>

blobVars == <<blobState, blobWs, blobRecv, blobPending, blobQueue, blobAudio,
             blobYielded, blobEnd>>

duoVars == <<duoState, duoSess, duoOut, duoFed, duoSkew, duoAgent>>

notEngine == <<splitVars, drmVars, subVars, wireVars, ttsVars, vmVars, textVars,
  listVars,
  cmpVars,
  blobVars,
  duoVars>>
notSplit == <<engineVars, drmVars, subVars, wireVars, ttsVars, vmVars, textVars,
  listVars,
  cmpVars,
  blobVars,
  duoVars>>
notDrm == <<engineVars, splitVars, subVars, wireVars, ttsVars, vmVars, textVars,
  listVars,
  cmpVars,
  blobVars,
  duoVars>>
notSub == <<engineVars, splitVars, drmVars, wireVars, ttsVars, vmVars, textVars,
  listVars,
  cmpVars,
  blobVars,
  duoVars>>
notWire == <<engineVars, splitVars, drmVars, subVars, ttsVars, vmVars, textVars,
  listVars,
  cmpVars,
  blobVars,
  duoVars>>
notTts == <<engineVars, splitVars, drmVars, subVars, wireVars, vmVars, textVars,
  listVars,
  cmpVars,
  blobVars,
  duoVars>>
notVm == <<engineVars, splitVars, drmVars, subVars, wireVars, ttsVars, textVars,
  listVars,
  cmpVars,
  blobVars,
  duoVars>>
notText == <<engineVars, splitVars, drmVars, subVars, wireVars, ttsVars, vmVars,
  listVars,
  cmpVars,
  blobVars,
  duoVars>>
\* listVoices uses the DRM state
notList == <<engineVars, splitVars, subVars, wireVars, ttsVars, vmVars, textVars,
  cmpVars,
  blobVars,
  duoVars>>

Sessions == 1..MaxSess
Gens == 1..MaxGens

\* ------------------------------------------------------------ queue items
Item(t, k, o, d) == [type |-> t, kind |-> k, offset |-> o, duration |-> d]
WBChunk(o, d) == Item("WordBoundary", "", o, d)
AudioChunk == Item("audio", "", 0, 0)
Err(k) == Item("error", k, 0, 0)
CloseItem == Item("close", "", 0, 0)

\* a thrown error: kind, and for HTTP errors the status and Date header
Thrown(k) == [kind |-> k, status |-> 0, date |-> NoDate]

\* ----------------------------------------------------------------- frames
MetaItem(t, o, d) == [Type |-> t, Offset |-> o, Duration |-> d]

\* headers[key] of a frame that has no such header
NoHeader == "undefined"

TextFrame(p, m) ==
  [binary |-> FALSE, path |-> p, meta |-> m, short |-> FALSE,
   hdrTooLong |-> FALSE, ctype |-> "", dataLen |-> 0]

BinaryFrame(sh, tooLong, p, ct, n) ==
  [binary |-> TRUE, path |-> p, meta |-> <<>>, short |-> sh,
   hdrTooLong |-> tooLong, ctype |-> ct, dataLen |-> n]

\* the words last one tick each; their offsets vary
WordBoundaryItems == {MetaItem("WordBoundary", o, 1) : o \in 0..MaxRawOffset}

MetaChoices ==
  {<<w>> : w \in WordBoundaryItems}
    \cup {<<MetaItem("SessionEnd", 0, 0), w>> : w \in WordBoundaryItems}
    \cup {<<MetaItem("SessionEnd", 0, 0)>>,
          <<MetaItem("SentenceBoundary", 0, 0)>>,
          <<MetaItem("WordBoundary", 0, 1), MetaItem("WordBoundary", 1, 1)>>,
          <<>>}

TextFrames ==
  {TextFrame("audio.metadata", m) : m \in MetaChoices}
    \cup {TextFrame(p, <<>>) :
            p \in {"turn.end", "response", "turn.start", "other", NoHeader}}

BinaryFrames ==
  {BinaryFrame(TRUE, FALSE, "", "", 0),
   BinaryFrame(FALSE, TRUE, "", "", 0),
   BinaryFrame(FALSE, FALSE, "other", "audio/mpeg", 1),
   BinaryFrame(FALSE, FALSE, "audio", "audio/mpeg", 1),
   BinaryFrame(FALSE, FALSE, "audio", "audio/mpeg", 0),
   BinaryFrame(FALSE, FALSE, "audio", "text/plain", 1),
   BinaryFrame(FALSE, FALSE, "audio", "text/plain", 0),
   BinaryFrame(FALSE, FALSE, "audio", NoHeader, 0)}

Frames == TextFrames \cup BinaryFrames

\* the frames of a synthesis that goes well: word boundaries, audio, turn.end
\* (in such a run the transport does not fail and no timeout is configured)
TimelineFrames ==
  {TextFrame("audio.metadata", <<w>>) : w \in WordBoundaryItems}
    \cup {TextFrame("turn.end", <<>>),
          BinaryFrame(FALSE, FALSE, "audio", "audio/mpeg", 1)}

\* the frames the service sends in a run of the given kind
FramesOf(kinds) == IF kinds = "timeline" THEN TimelineFrames ELSE Frames

\* ------------------------------------------------------ message handler
\* (mutant) the raw offset is reported without the compensation
CompensatedOffset_raw(raw, comp) == raw

\* parseMetadata: currentOffset = Offset + state.offsetCompensation
CompensatedOffset(raw, comp) == raw + comp

RECURSIVE parseMetadata(_, _)
parseMetadata(meta, comp) ==
  IF meta = <<>>
  THEN Err("UnexpectedResponse")
  ELSE LET metaObj == Head(meta) IN
       IF metaObj.Type = "WordBoundary"
       THEN WBChunk(CompensatedOffset(metaObj.Offset, comp), metaObj.Duration)
       ELSE IF metaObj.Type = "SessionEnd"
       THEN parseMetadata(Tail(meta), comp)
       ELSE Err("UnknownResponse")

\* value written to state.offsetCompensation by the turn.end branch
TurnEndCompensation(v, ldo) ==
  IF v \in {"isoNode", "isoBrowser"} THEN ldo + TurnEndDelay ELSE ldo

\* result of the 'message' listener on a frame: the items it pushes, the new
\* lastDurationOffset and offsetCompensation, and whether it calls close()
HandlerResult(q, ldo, comp, cl) ==
  [push |-> q, ldo |-> ldo, comp |-> comp, close |-> cl]

\* (mutant) turn.end queues the close marker itself instead of leaving it
\* to the transport's close event
handleText_endAtTurnEnd(f, v, comp, ldo) ==
  IF f.path = "audio.metadata"
  THEN LET parsedMetadata == parseMetadata(f.meta, comp) IN
       IF parsedMetadata.type = "WordBoundary"
       THEN HandlerResult(<<parsedMetadata>>,
                          parsedMetadata.offset + parsedMetadata.duration,
                          comp, FALSE)
       ELSE HandlerResult(<<parsedMetadata>>, ldo, comp, FALSE)
  ELSE IF f.path = "turn.end"
  THEN HandlerResult(<<CloseItem>>, ldo, TurnEndCompensation(v, ldo), TRUE)
  ELSE IF f.path # "response" /\ f.path # "turn.start"
  THEN HandlerResult(<<Err("UnknownResponse")>>, ldo, comp, FALSE)
  ELSE HandlerResult(<<>>, ldo, comp, FALSE)

handleText(f, v, comp, ldo) ==
  IF f.path = "audio.metadata"
  THEN LET parsedMetadata == parseMetadata(f.meta, comp) IN
       IF parsedMetadata.type = "WordBoundary"
       THEN HandlerResult(<<parsedMetadata>>,
                          parsedMetadata.offset + parsedMetadata.duration,
                          comp, FALSE)
       ELSE HandlerResult(<<parsedMetadata>>, ldo, comp, FALSE)
  ELSE IF f.path = "turn.end"
  THEN HandlerResult(<<>>, ldo, TurnEndCompensation(v, ldo), TRUE)
  ELSE IF f.path # "response" /\ f.path # "turn.start"
  THEN HandlerResult(<<Err("UnknownResponse")>>, ldo, comp, FALSE)
  ELSE HandlerResult(<<>>, ldo, comp, FALSE)

\* (mutant) a frame with another Content-Type is ignored whatever it carries
handleBinary_ignoreOtherTypes(f, comp, ldo) ==
  IF f.short
  THEN HandlerResult(<<Err("UnexpectedResponse")>>, ldo, comp, FALSE)
  ELSE IF f.hdrTooLong
  THEN HandlerResult(<<Err("UnexpectedResponse")>>, ldo, comp, FALSE)
  ELSE IF f.path # "audio"
  THEN HandlerResult(<<Err("UnexpectedResponse")>>, ldo, comp, FALSE)
  ELSE IF f.ctype # "audio/mpeg"
  THEN HandlerResult(<<>>, ldo, comp, FALSE)
  ELSE IF f.dataLen = 0
  THEN HandlerResult(<<Err("UnexpectedResponse")>>, ldo, comp, FALSE)
  ELSE HandlerResult(<<AudioChunk>>, ldo, comp, FALSE)

handleBinary(f, comp, ldo) ==
  IF f.short
  THEN HandlerResult(<<Err("UnexpectedResponse")>>, ldo, comp, FALSE)
  ELSE IF f.hdrTooLong
  THEN HandlerResult(<<Err("UnexpectedResponse")>>, ldo, comp, FALSE)
  ELSE IF f.path # "audio"
  THEN HandlerResult(<<Err("UnexpectedResponse")>>, ldo, comp, FALSE)
  ELSE IF f.ctype # "audio/mpeg"
  THEN IF f.dataLen > 0
       THEN HandlerResult(<<Err("UnexpectedResponse")>>, ldo, comp, FALSE)
       ELSE HandlerResult(<<>>, ldo, comp, FALSE)
  ELSE IF f.dataLen = 0
  THEN HandlerResult(<<Err("UnexpectedResponse")>>, ldo, comp, FALSE)
  ELSE HandlerResult(<<AudioChunk>>, ldo, comp, FALSE)

\* the isomorphic class takes the text branch only when the data is a
\* string; under Node ws passes a text frame as a Buffer
TextAsString(v) == v # "isoNode"

\* a text frame in the binary branch: its first two characters, read as the
\* header length, exceed its length, or else its binary headers hold no Path
TextFrameAsBinary(f) == BinaryFrame(FALSE, TRUE, "", "", 0)

handleMessage(f, v, comp, ldo) ==
  IF f.binary THEN handleBinary(f, comp, ldo)
  ELSE IF TextAsString(v) THEN handleText(f, v, comp, ldo)
  ELSE handleBinary(TextFrameAsBinary(f), comp, ldo)

\* ----------------------------------------------------------- consumer loop
\* (mutant) the loop ends normally whether or not audio was received
CloseOutcome_alwaysBreak(audio) == "break"

\* what the loop does with the 'close' marker
CloseOutcome(audio) == IF ~audio THEN "NoAudioReceived" ELSE "break"

\* the catch clause of stream(): retry the segment or rethrow
CatchResult(a, e, skew) == [act |-> a, err |-> e, skew |-> skew]

\* DRM.handleClientResponseError with the local clock at 0
handleClientResponseError(e, skew) ==
  IF e.date = NoDate
  THEN CatchResult("throw", Thrown("SkewAdjustmentError"), skew)
  ELSE CatchResult("retry", e, skew + (e.date - (0 + skew)))

\* (mutant) every error is retried, also inside the catch clause
StreamCatch_retryAll(v, caught, e, skew) == CatchResult("retry", e, skew)

\* (mutant) the caught error is wrapped before it is rethrown
StreamCatch_wrap(v, caught, e, skew) ==
  CatchResult("throw", Thrown("WebSocketError"), skew)

StreamCatch(v, caught, e, skew) ==
  IF v = "node" /\ ~caught /\ e.kind = "AxiosError" /\ e.status = 403
  THEN handleClientResponseError(e, skew)
  ELSE CatchResult("throw", e, skew)

\* the one-shot guard of stream()
GuardThrows(called) == called

\* ------------------------------------------------------------------- Init
EngineInit ==
  /\ variant \in Variants
  /\ connectionTimeout \in BOOLEAN
  /\ (connectionTimeout => variant = "browser")
  /\ streamWasCalled = FALSE
  /\ offsetCompensation = 0
  /\ lastDurationOffset = 0
  /\ partialText = 0
  /\ textsState = "active"
  /\ blankText \in BOOLEAN
  /\ clockSkewSeconds = 0
  /\ gen = [g \in Gens |-> "none"]
  /\ genErr = [g \in Gens |-> "none"]
  /\ owner = 0
  /\ pc = "idle"
  /\ inCatch = FALSE
  /\ nSess = 0
  /\ sessSeg = [s \in Sessions |-> 0]
  /\ websocket = [s \in Sessions |-> "none"]
  /\ messageQueue = [s \in Sessions |-> <<>>]
  /\ audioWasReceived = [s \in Sessions |-> FALSE]
  /\ openPromise = [s \in Sessions |-> "none"]
  /\ rejectReason = [s \in Sessions |-> "none"]
  /\ timer1 = [s \in Sessions |-> "unset"]
  /\ timer2 = [s \in Sessions |-> "unset"]
  /\ sent = [s \in Sessions |-> <<>>]
  /\ tokenSkew = [s \in Sessions |-> 0]
  /\ \/ calls = 1 /\ frameKinds = "timeline" /\ frameBudget = MaxFrames
        /\ ~connectionTimeout
     \/ calls = 1 /\ frameKinds = "all" /\ frameBudget = MaxFramesOther
     \/ calls = MaxGens /\ frameKinds = "all" /\ frameBudget = MaxFramesGuard
  /\ nFrames = 0
  /\ yielded = <<>>
  /\ pushed = <<>>
  /\ recvLog = [s \in Sessions |-> <<>>]
  /\ sessEnd = [s \in Sessions |-> "none"]
  /\ wsCause = [s \in Sessions |-> "none"]

\* ------------------------------------------------------------- operations
Cur == nSess

cfgVars ==
  <<variant, connectionTimeout, textsState, calls, frameBudget, frameKinds, blankText>>
instVars == <<streamWasCalled, offsetCompensation, lastDurationOffset>>
wsVars == <<websocket, openPromise, rejectReason, timer1, timer2, wsCause>>
logVars == <<yielded, pushed, recvLog>>

\* _stream() up to its first await: token, new WebSocket, listeners, timers
StartSession(seg, caught, skew) ==
  LET s == nSess + 1 IN
  /\ nSess < MaxSess
  /\ nSess' = s
  /\ sessSeg' = [sessSeg EXCEPT ![s] = seg]
  /\ tokenSkew' = [tokenSkew EXCEPT ![s] = skew]
  /\ websocket' = [websocket EXCEPT ![s] = "connecting"]
  /\ openPromise' = [openPromise EXCEPT ![s] = "pending"]
  /\ timer1' = [timer1 EXCEPT ![s] =
                  IF variant = "browser" /\ connectionTimeout THEN "armed" ELSE "unset"]
  /\ timer2' = [timer2 EXCEPT ![s] =
                  IF variant = "browser" /\ connectionTimeout THEN "armed" ELSE "unset"]
  /\ inCatch' = caught
  /\ pc' = "awaitOpen"

\* _stream() threw e inside stream()
Throw(e) ==
  LET r == StreamCatch(variant, inCatch, e, clockSkewSeconds) IN
  /\ sessEnd' = [sessEnd EXCEPT ![Cur] = e.kind]
  /\ clockSkewSeconds' = r.skew
  /\ IF r.act = "retry"
     THEN /\ StartSession(partialText, TRUE, r.skew)
          /\ UNCHANGED <<gen, genErr>>
     ELSE /\ gen' = [gen EXCEPT ![owner] = "failed"]
          /\ genErr' = [genErr EXCEPT ![owner] = r.err.kind]
          /\ pc' = "idle"
          /\ UNCHANGED <<nSess, sessSeg, tokenSkew, websocket, openPromise,
                         timer1, timer2, inCatch>>

\* communicate.stream(): returns a generator whose body has not started
Stream(g) ==
  /\ gen[g] = "none" /\ g <= calls
  /\ \A h \in Gens : h < g => gen[h] # "none"
  /\ gen' = [gen EXCEPT ![g] = "suspendedStart"]
  /\ UNCHANGED <<cfgVars, instVars, wsVars, logVars, partialText, clockSkewSeconds,
                 genErr, owner, pc, inCatch, nSess, sessSeg, messageQueue,
                 audioWasReceived, sent, tokenSkew, nFrames, sessEnd>>
  /\ UNCHANGED notEngine

\* the consumer calls next() on generator g
Pull(g) ==
  /\ gen[g] \in {"suspendedStart", "suspendedYield"}
  /\ IF gen[g] = "suspendedStart"
     THEN IF GuardThrows(streamWasCalled)
          THEN /\ gen' = [gen EXCEPT ![g] = "failed"]
               /\ genErr' = [genErr EXCEPT ![g] = "Error"]
               /\ UNCHANGED <<streamWasCalled, owner, pc>>
          ELSE /\ streamWasCalled' = TRUE
               /\ owner' = g
               /\ pc' = "nextText"
               /\ gen' = [gen EXCEPT ![g] = "running"]
               /\ UNCHANGED genErr
     ELSE /\ gen' = [gen EXCEPT ![g] = "running"]
          /\ UNCHANGED <<streamWasCalled, owner, pc, genErr>>
  /\ UNCHANGED <<cfgVars, offsetCompensation, lastDurationOffset, wsVars, logVars,
                 partialText, clockSkewSeconds, inCatch, nSess, sessSeg,
                 messageQueue, audioWasReceived, sent, tokenSkew, nFrames, sessEnd>>
  /\ UNCHANGED notEngine

\* for (const partialText of this.texts): the segmenter yields, ends or throws;
\* on a blank text it yields nothing (utils.ts 170-173)
NextText ==
  /\ owner # 0 /\ gen[owner] = "running" /\ pc = "nextText"
  /\ \/ /\ partialText < MaxSegs /\ ~blankText
        /\ partialText' = partialText + 1
        /\ StartSession(partialText + 1, FALSE, clockSkewSeconds)
        /\ UNCHANGED <<gen, genErr, textsState>>
     \/ /\ blankText \/ partialText >= 1
        /\ textsState' = "done"
        /\ gen' = [gen EXCEPT ![owner] = "done"]
        /\ pc' = "idle"
        /\ UNCHANGED <<genErr, partialText, nSess, sessSeg, tokenSkew, websocket,
                       openPromise, timer1, timer2, inCatch>>
     \/ /\ textsState' = "threw"
        /\ gen' = [gen EXCEPT ![owner] = "failed"]
        /\ genErr' = [genErr EXCEPT ![owner] = "ValueError"]
        /\ pc' = "idle"
        /\ UNCHANGED <<partialText, nSess, sessSeg, tokenSkew, websocket,
                       openPromise, timer1, timer2, inCatch>>
  /\ UNCHANGED <<variant, connectionTimeout, calls, frameBudget, frameKinds,
                 blankText, instVars,
                 rejectReason, wsCause, logVars,
                 clockSkewSeconds, owner, messageQueue, audioWasReceived, sent,
                 nFrames, sessEnd>>
  /\ UNCHANGED notEngine

ConfigMessage == [path |-> "speech.config", seg |-> 0]
SsmlMessage(seg) == [path |-> "ssml", seg |-> seg]

\* (mutant) the ssml message is sent before the configuration
Handshake_ssmlFirst(seg) == <<SsmlMessage(seg), ConfigMessage>>

\* the two websocket.send calls after the open promise resolved
Handshake(seg) == <<ConfigMessage, SsmlMessage(seg)>>

\* the transport reaches the open state; the generator sends the handshake
Open(s) ==
  /\ s <= nSess /\ websocket[s] = "connecting"
  /\ websocket' = [websocket EXCEPT ![s] = "open"]
  /\ timer1' = [timer1 EXCEPT ![s] = IF @ = "armed" THEN "cleared" ELSE @]
  /\ IF openPromise[s] = "pending"
     THEN /\ openPromise' = [openPromise EXCEPT ![s] = "resolved"]
          /\ sent' = [sent EXCEPT ![s] = Handshake(partialText)]
          /\ pc' = "loop"
     ELSE UNCHANGED <<openPromise, sent, pc>>
  /\ UNCHANGED <<cfgVars, instVars, logVars, partialText, clockSkewSeconds, gen,
                 genErr, owner, inCatch, nSess, sessSeg, messageQueue,
                 audioWasReceived, rejectReason, timer2, tokenSkew, nFrames,
                 sessEnd, wsCause>>
  /\ UNCHANGED notEngine

\* items the 'error' listeners push for a transport error
ErrorPush(v) == IF v = "isoBrowser" THEN <<>> ELSE <<Err("WebSocketError")>>

\* whether an 'error' listener rejects the pending open promise
ErrorRejects(v) == v \in {"isoNode", "isoBrowser"}

\* the transport reports an error (handshake rejected, network failure)
TransportError(s, cause) ==
  /\ s <= nSess /\ websocket[s] \in {"connecting", "open", "aborting"}
  /\ frameKinds = "all"
  /\ (cause # "network" => websocket[s] = "connecting")
  /\ websocket' = [websocket EXCEPT ![s] = "errored"]
  /\ wsCause' = [wsCause EXCEPT ![s] = cause]
  /\ timer1' = [timer1 EXCEPT ![s] = IF @ = "armed" THEN "cleared" ELSE @]
  /\ messageQueue' = [messageQueue EXCEPT ![s] = @ \o ErrorPush(variant)]
  /\ IF ErrorRejects(variant) /\ openPromise[s] = "pending"
     THEN /\ openPromise' = [openPromise EXCEPT ![s] = "rejected"]
          /\ rejectReason' = [rejectReason EXCEPT ![s] = "TransportError"]
     ELSE UNCHANGED <<openPromise, rejectReason>>
  /\ UNCHANGED <<cfgVars, instVars, logVars, partialText, clockSkewSeconds, gen,
                 genErr, owner, pc, inCatch, nSess, sessSeg, audioWasReceived,
                 timer2, sent, tokenSkew, nFrames, sessEnd>>
  /\ UNCHANGED notEngine

\* the transport's close event
Close(s) ==
  /\ s <= nSess /\ websocket[s] \in {"open", "closing", "errored", "aborting"}
  /\ websocket' = [websocket EXCEPT ![s] = "closed"]
  /\ timer1' = [timer1 EXCEPT ![s] = IF @ = "armed" THEN "cleared" ELSE @]
  /\ messageQueue' = [messageQueue EXCEPT ![s] = Append(@, CloseItem)]
  /\ UNCHANGED <<cfgVars, instVars, logVars, partialText, clockSkewSeconds, gen,
                 genErr, owner, pc, inCatch, nSess, sessSeg, audioWasReceived,
                 openPromise, rejectReason, timer2, sent, tokenSkew, nFrames,
                 sessEnd, wsCause>>
  /\ UNCHANGED notEngine

IsChunk(item) == item.type \in {"WordBoundary", "audio"}

Tagged(s, q) == [i \in 1..Len(q) |-> [sess |-> s, chunk |-> q[i]]]

\* marks of the receive log; an accepted WordBoundary is logged as its
\* offset + duration, frames that change nothing are not logged
TurnEndMark == -1
AudioMark == -2
BadFrameMark == -3

\* what a frame adds to the session's receive log
LogOf(f, r) ==
  IF r.close THEN <<TurnEndMark>>
  ELSE IF r.push = <<>> THEN <<>>
  ELSE IF r.push[1].type = "WordBoundary"
  THEN <<r.push[1].offset + r.push[1].duration>>
  ELSE IF r.push[1].type = "audio" THEN <<AudioMark>>
  ELSE <<BadFrameMark>>

\* the transport delivers frame f to the 'message' listener of session s
Message(s, f) ==
  /\ s <= nSess /\ nFrames < frameBudget /\ f \in FramesOf(frameKinds)
  /\ \/ websocket[s] = "open"
     \/ websocket[s] = "closing" /\ variant \in NodeWs
  /\ LET r == handleMessage(f, variant, offsetCompensation, lastDurationOffset) IN
     /\ lastDurationOffset' = r.ldo
     /\ offsetCompensation' = r.comp
     /\ messageQueue' = [messageQueue EXCEPT ![s] = @ \o r.push]
     /\ websocket' = [websocket EXCEPT ![s] = IF r.close THEN "closing" ELSE @]
     /\ pushed' = pushed \o Tagged(s, SelectSeq(r.push, IsChunk))
     /\ recvLog' = [recvLog EXCEPT ![s] = @ \o LogOf(f, r)]
  /\ nFrames' = nFrames + 1
  /\ timer1' = [timer1 EXCEPT ![s] = IF @ = "armed" THEN "cleared" ELSE @]
  /\ UNCHANGED <<cfgVars, streamWasCalled, partialText, clockSkewSeconds, gen, genErr,
                 owner, pc, inCatch, nSess, sessSeg, audioWasReceived, openPromise,
                 rejectReason, timer2, sent, tokenSkew, yielded, sessEnd, wsCause>>
  /\ UNCHANGED notEngine

\* browser: the window.setTimeout callback of lines 249-253
Timer1Fire(s) ==
  /\ s <= nSess /\ timer1[s] = "armed"
  /\ timer1' = [timer1 EXCEPT ![s] = "fired"]
  /\ websocket' = [websocket EXCEPT ![s] =
                     IF @ = "connecting" THEN "aborting"
                     ELSE IF @ = "open" THEN "closing" ELSE @]
  /\ messageQueue' = [messageQueue EXCEPT ![s] = Append(@, Err("WebSocketError"))]
  /\ UNCHANGED <<cfgVars, instVars, logVars, partialText, clockSkewSeconds, gen,
                 genErr, owner, pc, inCatch, nSess, sessSeg, audioWasReceived,
                 openPromise, rejectReason, timer2, sent, tokenSkew, nFrames,
                 sessEnd, wsCause>>
  /\ UNCHANGED notEngine

\* browser: the setTimeout callback of lines 368-373; it was registered after
\* timer 1 with the same delay, so it runs after it
Timer2Fire(s) ==
  /\ s <= nSess /\ timer2[s] = "armed" /\ timer1[s] # "armed"
  /\ timer2' = [timer2 EXCEPT ![s] = "fired"]
  /\ IF websocket[s] = "connecting"
     THEN /\ websocket' = [websocket EXCEPT ![s] = "aborting"]
          /\ IF openPromise[s] = "pending"
             THEN /\ openPromise' = [openPromise EXCEPT ![s] = "rejected"]
                  /\ rejectReason' = [rejectReason EXCEPT ![s] = "WebSocketError"]
             ELSE UNCHANGED <<openPromise, rejectReason>>
     ELSE UNCHANGED <<websocket, openPromise, rejectReason>>
  /\ UNCHANGED <<cfgVars, instVars, logVars, partialText, clockSkewSeconds, gen,
                 genErr, owner, pc, inCatch, nSess, sessSeg, messageQueue,
                 audioWasReceived, timer1, sent, tokenSkew, nFrames, sessEnd,
                 wsCause>>
  /\ UNCHANGED notEngine

\* the open promise was rejected: _stream() throws the rejection reason
Rejected ==
  /\ owner # 0 /\ gen[owner] = "running" /\ pc = "awaitOpen"
  /\ openPromise[Cur] = "rejected"
  /\ Throw(Thrown(rejectReason[Cur]))
  /\ UNCHANGED <<cfgVars, instVars, logVars, partialText, owner, messageQueue,
                 audioWasReceived, rejectReason, sent, nFrames, wsCause>>
  /\ UNCHANGED notEngine

\* (mutant) the consumer takes the newest message of the queue
shift_pop(queue) ==
  [message |-> queue[Len(queue)], rest |-> SubSeq(queue, 1, Len(queue) - 1)]

\* messageQueue.shift(): the oldest message, and the queue it leaves
shift(queue) == [message |-> Head(queue), rest |-> Tail(queue)]

\* one iteration of the consumer loop of _stream() on a non-empty queue
Loop ==
  /\ owner # 0 /\ gen[owner] = "running" /\ pc = "loop"
  /\ messageQueue[Cur] # <<>>
  /\ LET message == shift(messageQueue[Cur]).message IN
     /\ messageQueue' = [messageQueue EXCEPT ![Cur] = shift(@).rest]
     /\ IF message.type = "close"
        THEN IF CloseOutcome(audioWasReceived[Cur]) = "break"
             THEN /\ sessEnd' = [sessEnd EXCEPT ![Cur] = "normal"]
                  /\ pc' = "nextText"
                  /\ inCatch' = FALSE
                  /\ UNCHANGED <<gen, genErr, nSess, sessSeg, tokenSkew, wsVars,
                                 clockSkewSeconds, audioWasReceived, yielded>>
             ELSE /\ Throw(Thrown("NoAudioReceived"))
                  /\ UNCHANGED <<audioWasReceived, yielded, rejectReason, wsCause>>
        ELSE IF message.type = "error"
        THEN /\ Throw(Thrown(message.kind))
             /\ UNCHANGED <<audioWasReceived, yielded, rejectReason, wsCause>>
        ELSE /\ audioWasReceived' = [audioWasReceived EXCEPT ![Cur] =
                                       @ \/ message.type = "audio"]
             /\ yielded' = Append(yielded, [sess |-> Cur, chunk |-> message])
             /\ gen' = [gen EXCEPT ![owner] = "suspendedYield"]
             /\ UNCHANGED <<genErr, nSess, sessSeg, tokenSkew, wsVars,
                            clockSkewSeconds, pc, inCatch, sessEnd>>
  /\ UNCHANGED <<cfgVars, instVars, partialText, owner, sent, nFrames, pushed,
                 recvLog>>
  /\ UNCHANGED notEngine

EngineNext ==
  \/ \E g \in Gens : Stream(g)
  \/ \E g \in Gens : Pull(g)
  \/ NextText
  \/ \E s \in Sessions : Open(s)
  \/ \E s \in Sessions, c \in {"network", "http403", "http403date"} : TransportError(s, c)
  \/ \E s \in Sessions : Close(s)
  \/ \E s \in Sessions, f \in Frames : Message(s, f)
  \/ \E s \in Sessions : Timer1Fire(s)
  \/ \E s \in Sessions : Timer2Fire(s)
  \/ Rejected
  \/ Loop

\* ===================================================================
\* utils.ts: splitTextByByteLength
\* ===================================================================
\* A Buffer is a sequence of bytes; a decoded string is a sequence of code
\* points, each written as the bytes of its UTF-8 encoding.
Lead2 == {"C2", "C3"}
Lead3 == {"EF"}
Cont == {"A9", "AF", "BD", "BF"}
Whitespace == {<<" ">>, <<"NL">>}

\* U+FFFD, which the decoder puts in place of an ill-formed sequence
ReplacementChar == <<"EF", "BF", "BD">>

\* (mutant) the literal is U+FFFD
SplitCheckLiteral_fffd == <<ReplacementChar>>

\* the literal of utils.ts line 107: the three characters U+00EF U+00BF U+00BD
SplitCheckLiteral == <<<<"C3", "AF">>, <<"C2", "BF">>, <<"C2", "BD">>>>

Min(a, b) == IF a < b THEN a ELSE b

\* buf.subarray(from, to), 0-based, end exclusive, clamped to the buffer
subarray(buf, from, to) == SubSeq(buf, Min(from, Len(buf)) + 1, Min(to, Len(buf)))

\* buf.toString('utf-8')
RECURSIVE toString(_)
toString(buf) ==
  IF buf = <<>> THEN <<>>
  ELSE LET b == buf[1]
           n == Len(buf)
       IN IF b \in Lead2
          THEN IF n >= 2 /\ buf[2] \in Cont
               THEN <<<<b, buf[2]>>>> \o toString(SubSeq(buf, 3, n))
               ELSE <<ReplacementChar>> \o toString(Tail(buf))
          ELSE IF b \in Lead3
          THEN IF n >= 2 /\ buf[2] \in Cont
               THEN IF n >= 3 /\ buf[3] \in Cont
                    THEN <<<<b, buf[2], buf[3]>>>> \o toString(SubSeq(buf, 4, n))
                    ELSE <<ReplacementChar>> \o toString(SubSeq(buf, 3, n))
               ELSE <<ReplacementChar>> \o toString(Tail(buf))
          ELSE IF b \in Cont
          THEN <<ReplacementChar>> \o toString(Tail(buf))
          ELSE <<<<b>>>> \o toString(Tail(buf))

\* Buffer.from(str, 'utf-8')
RECURSIVE BufferFrom(_)
BufferFrom(str) == IF str = <<>> THEN <<>> ELSE Head(str) \o BufferFrom(Tail(str))

\* str.trim()
RECURSIVE trimStart(_)
trimStart(str) ==
  IF str # <<>> /\ Head(str) \in Whitespace THEN trimStart(Tail(str)) ELSE str

RECURSIVE trimEnd(_)
trimEnd(str) ==
  IF str # <<>> /\ str[Len(str)] \in Whitespace
  THEN trimEnd(SubSeq(str, 1, Len(str) - 1))
  ELSE str

trim(str) == trimEnd(trimStart(str))

\* str.endsWith(lit)
endsWith(str, lit) ==
  /\ Len(str) >= Len(lit)
  /\ SubSeq(str, Len(str) - Len(lit) + 1, Len(str)) = lit

Max(S) == CHOOSE x \in S : \A y \in S : y <= x

MinOf(S) == CHOOSE x \in S : \A y \in S : x <= y

\* buf.lastIndexOf(b, byteOffset) of a Node Buffer: a negative byteOffset
\* counts from the end of the buffer, one past the end searches all of it
lastIndexOf(buf, b, byteOffset) ==
  LET n == Len(buf)
      from == IF byteOffset < 0
              THEN (IF byteOffset + n >= 0 THEN n + byteOffset ELSE -1)
              ELSE (IF byteOffset + 1 <= n THEN byteOffset ELSE n - 1)
      hits == {i \in 0..from : buf[i + 1] = b}
  IN IF hits = {} THEN -1 ELSE Max(hits)

\* buf.indexOf(b, byteOffset) for byteOffset >= 0
indexOf(buf, b, byteOffset) ==
  LET hits == {i \in byteOffset..(Len(buf) - 1) : buf[i + 1] = b}
  IN IF hits = {} THEN -1 ELSE MinOf(hits)

findLastNewlineOrSpaceWithinLimit(buf, limit) ==
  LET slice == subarray(buf, 0, limit)
      nl == lastIndexOf(slice, "NL", Len(slice))
  IN IF nl < 0 THEN lastIndexOf(slice, " ", Len(slice)) ELSE nl

RECURSIVE safeSplitFrom(_, _)
safeSplitFrom(textSegment, at) ==
  IF at > 0
  THEN IF endsWith(toString(subarray(textSegment, 0, at)), SplitCheckLiteral)
       THEN safeSplitFrom(textSegment, at - 1)
       ELSE at
  ELSE at

findSafeUtf8SplitPoint(textSegment) == safeSplitFrom(textSegment, Len(textSegment))

\* ---------------------------------------------------------------- inputs
Units ==
  {<<"a">>, <<" ">>, <<"NL">>, <<"&">>, <<"&", "a", ";">>, <<"C3", "A9">>,
   <<"C3", "AF", "C2", "BF", "C2", "BD">>}

RECURSIVE Texts(_)
Texts(k) ==
  IF k = 0 THEN {<<>>}
  ELSE LET shorter == Texts(k - 1)
       IN shorter \cup {t \o u : t \in shorter, u \in Units}

SplitIdle ==
  /\ text = <<>> /\ byteLength = 0 /\ buffer = <<>> /\ splitAt = 0
  /\ ampersandIndex = -1 /\ splitPc = "off" /\ segments = <<>>

SplitInit ==
  /\ text \in Texts(MaxUnits)
  /\ byteLength \in 0..MaxByteLength
  /\ buffer = text
  /\ splitAt = 0
  /\ ampersandIndex = -1
  /\ splitPc = "start"
  /\ segments = <<>>

\* the generator starts: if (byteLength <= 0) throw ValueError
SplitStart ==
  /\ splitPc = "start"
  /\ splitPc' = IF byteLength <= 0 THEN "ValueError" ELSE "loop"
  /\ UNCHANGED <<text, byteLength, buffer, splitAt, ampersandIndex, segments>>
  /\ UNCHANGED notSplit

\* yield Buffer.from(chunkString) when chunkString is not empty
yieldTrimmed(segs, chunk) ==
  LET chunkString == trim(toString(chunk))
  IN IF chunkString # <<>> THEN Append(segs, BufferFrom(chunkString)) ELSE segs

\* head of the while loop: pick the split point, or yield the remainder
SplitLoop ==
  /\ splitPc = "loop"
  /\ IF Len(buffer) > byteLength
     THEN LET ws == findLastNewlineOrSpaceWithinLimit(buffer, byteLength)
              at == IF ws < 0
                    THEN findSafeUtf8SplitPoint(subarray(buffer, 0, byteLength))
                    ELSE ws
          IN /\ splitAt' = at
             /\ ampersandIndex' = lastIndexOf(buffer, "&", at - 1)
             /\ splitPc' = "adjust"
             /\ UNCHANGED <<buffer, segments>>
     ELSE /\ segments' = yieldTrimmed(segments, buffer)
          /\ splitPc' = "done"
          /\ UNCHANGED <<buffer, splitAt, ampersandIndex>>
  /\ UNCHANGED <<text, byteLength>>
  /\ UNCHANGED notSplit

\* one iteration of the while loop of _adjustSplitPointForXmlEntity
SplitAdjust ==
  /\ splitPc = "adjust" /\ ampersandIndex # -1
  /\ LET semicolonIndex == indexOf(buffer, ";", ampersandIndex) IN
     IF semicolonIndex # -1 /\ semicolonIndex < splitAt
     THEN /\ splitPc' = "emit"
          /\ UNCHANGED <<splitAt, ampersandIndex>>
     ELSE /\ splitAt' = ampersandIndex
          /\ ampersandIndex' = lastIndexOf(buffer, "&", ampersandIndex - 1)
          /\ UNCHANGED splitPc
  /\ UNCHANGED <<text, byteLength, buffer, segments>>
  /\ UNCHANGED notSplit

\* the rest of the loop body: fail on splitAt <= 0, else yield and advance
SplitEmit ==
  /\ \/ splitPc = "emit"
     \/ splitPc = "adjust" /\ ampersandIndex = -1
  /\ IF splitAt <= 0
     THEN /\ splitPc' = "ValueError"
          /\ UNCHANGED <<buffer, segments>>
     ELSE /\ segments' = yieldTrimmed(segments, subarray(buffer, 0, splitAt))
          /\ buffer' = subarray(buffer, splitAt, Len(buffer))
          /\ splitPc' = "loop"
  /\ UNCHANGED <<text, byteLength, splitAt, ampersandIndex>>
  /\ UNCHANGED notSplit

SplitNext == SplitStart \/ SplitLoop \/ SplitAdjust \/ SplitEmit

\* ------------------------------------------- browserSplitTextByByteLength
\* new TextEncoder().encode(sliceText.substring(0, index)).length
encodedLength(str, index) == Len(BufferFrom(SubSeq(str, 1, index)))

\* the split point of one iteration of the browser's while loop
browserSplitPoint(buf, limit) ==
  LET sliceText == toString(subarray(buf, 0, limit))
      lastNewline == lastIndexOf(sliceText, <<"NL">>, Len(sliceText))
      lastSpace == lastIndexOf(sliceText, <<" ">>, Len(sliceText))
  IN IF lastNewline > 0 THEN encodedLength(sliceText, lastNewline)
     ELSE IF lastSpace > 0 THEN encodedLength(sliceText, lastSpace)
     ELSE limit

\* the generator starts: if (byteLength <= 0) throw Error
BrowserSplitStart ==
  /\ splitPc = "start"
  /\ splitPc' = IF byteLength <= 0 THEN "Error" ELSE "loop"
  /\ UNCHANGED <<text, byteLength, buffer, splitAt, ampersandIndex, segments>>
  /\ UNCHANGED notSplit

\* one iteration of the while loop, or the remainder after it
BrowserSplitLoop ==
  /\ splitPc = "loop"
  /\ IF Len(buffer) > byteLength
     THEN LET at == browserSplitPoint(buffer, byteLength) IN
          /\ splitAt' = at
          /\ segments' = yieldTrimmed(segments, subarray(buffer, 0, at))
          /\ buffer' = subarray(buffer, at, Len(buffer))
          /\ UNCHANGED splitPc
     ELSE /\ segments' = yieldTrimmed(segments, buffer)
          /\ splitPc' = "done"
          /\ UNCHANGED <<buffer, splitAt>>
  /\ UNCHANGED <<text, byteLength, ampersandIndex>>
  /\ UNCHANGED notSplit

BrowserSplitNext == BrowserSplitStart \/ BrowserSplitLoop

\* ===================================================================
\* drm.ts: DRM (clock skew and the Sec-MS-GEC token)
\* ===================================================================
\* A JavaScript number is a value or NaN.
Num(v) == [nan |-> FALSE, v |-> v]
NaN == [nan |-> TRUE, v |-> 0]
Plus(a, b) == IF a.nan \/ b.nan THEN NaN ELSE Num(a.v + b.v)
Minus(a, b) == IF a.nan \/ b.nan THEN NaN ELSE Num(a.v - b.v)

\* ticks -= ticks % 300: the length of a token bucket in seconds
BucketSeconds == 300

\* DRM.clockSkewSeconds += skewSeconds
adjClockSkewSeconds(skew, skewSeconds) == Plus(skew, skewSeconds)

\* Date.now() / 1000 + DRM.clockSkewSeconds
getUnixTimestamp(wall, skew) == Plus(Num(wall), skew)

\* new Date(date).getTime() / 1000: an unparseable string gives an Invalid
\* Date, whose time is NaN; the constructor does not throw, so the catch
\* clause that returns null is never entered
parseRfc2616Date(date) == IF date.kind = "valid" THEN Num(date.t) ELSE NaN

\* the Date header of a response
DateHeader(k, t) == [kind |-> k, t |-> t]

\* the error passed to handleClientResponseError
ResponseError(r, h, d) == [response |-> r, headers |-> h, date |-> d]

DrmOutcome(threw, skew) == [threw |-> threw, skew |-> skew]

\* DRM.handleClientResponseError(e) called at wall-clock time wall
drmHandle(e, wall, skew) ==
  IF ~e.response \/ ~e.headers
  THEN DrmOutcome("SkewAdjustmentError", skew)
  ELSE IF e.date.kind \in {"absent", "empty", "nonString"}
  THEN DrmOutcome("SkewAdjustmentError", skew)
  ELSE LET serverDateParsed == parseRfc2616Date(e.date)
           clientDate == getUnixTimestamp(wall, skew)
       IN DrmOutcome("none", adjClockSkewSeconds(skew, Minus(serverDateParsed, clientDate)))

\* (mutant) the time is hashed as it is, not rounded down to its bucket
StrToHash_noBucket(t) == [ticks |-> t, token |-> "TRUSTED_CLIENT_TOKEN"]

\* the string generateSecMsGec hashes: ticks.toFixed(0) followed by the
\* trusted client token. ticks is the start of the 300-second bucket of
\* t + WIN_EPOCH, in 100-ns units; WIN_EPOCH (11644473600) is a multiple of
\* 300 and the product by 1e7 is exact, so the decimal string is written
\* here as the start of the bucket of t, in seconds. NaN stays NaN through
\* every step and prints as "NaN"
StrToHash(t) ==
  [ticks |-> IF t.nan THEN NaN ELSE Num(t.v - (t.v % BucketSeconds)),
   token |-> "TRUSTED_CLIENT_TOKEN"]

\* ---------------------------------------------------------------- inputs
DateHeaders(wall) ==
  {DateHeader(k, 0) : k \in {"absent", "empty", "nonString", "garbage"}}
    \cup {DateHeader("valid", wall + d) : d \in {-301, 0, 300}}

ResponseErrors(wall) ==
  {ResponseError(FALSE, FALSE, DateHeader("absent", 0)),
   ResponseError(TRUE, FALSE, DateHeader("absent", 0))}
    \cup {ResponseError(TRUE, TRUE, d) : d \in DateHeaders(wall)}

DrmCall(op, e, threw, before, at) ==
  [op |-> op, e |-> e, threw |-> threw, before |-> before, at |-> at]

NoResponse == ResponseError(FALSE, FALSE, DateHeader("absent", 0))

DrmIdle ==
  /\ now = 0 /\ drmClockSkewSeconds = Num(0) /\ tokens = <<>>
  /\ drmLast = DrmCall("none", NoResponse, "none", Num(0), 0)
  /\ nDrmCalls = 0 /\ nClockTicks = 0

DrmInit ==
  /\ now \in {0, BucketSeconds - 1}
  /\ drmClockSkewSeconds = Num(0)
  /\ tokens = <<>>
  /\ drmLast = DrmCall("none", NoResponse, "none", Num(0), now)
  /\ nDrmCalls = 0
  /\ nClockTicks = 0

\* a second passes
DrmTick ==
  /\ nClockTicks < MaxClockTicks
  /\ now' = now + 1
  /\ nClockTicks' = nClockTicks + 1
  /\ UNCHANGED <<drmClockSkewSeconds, tokens, drmLast, nDrmCalls>>
  /\ UNCHANGED notDrm

\* DRM.handleClientResponseError(e)
DrmHandle(e) ==
  /\ nDrmCalls < MaxDrmCalls
  /\ LET r == drmHandle(e, now, drmClockSkewSeconds) IN
     /\ drmClockSkewSeconds' = r.skew
     /\ drmLast' = DrmCall("handle", e, r.threw, drmClockSkewSeconds, now)
  /\ nDrmCalls' = nDrmCalls + 1
  /\ UNCHANGED <<now, tokens, nClockTicks>>
  /\ UNCHANGED notDrm

\* DRM.adjClockSkewSeconds(1)
DrmAdjust ==
  /\ nDrmCalls < MaxDrmCalls
  /\ drmClockSkewSeconds' = adjClockSkewSeconds(drmClockSkewSeconds, Num(1))
  /\ drmLast' = DrmCall("adjust", NoResponse, "none", drmClockSkewSeconds, now)
  /\ nDrmCalls' = nDrmCalls + 1
  /\ UNCHANGED <<now, tokens, nClockTicks>>
  /\ UNCHANGED notDrm

\* DRM.generateSecMsGec()
DrmToken ==
  /\ nDrmCalls < MaxDrmCalls
  /\ LET t == getUnixTimestamp(now, drmClockSkewSeconds) IN
     tokens' = Append(tokens, [at |-> t, skew |-> drmClockSkewSeconds,
                               str |-> StrToHash(t)])
  /\ drmLast' = DrmCall("token", NoResponse, "none", drmClockSkewSeconds, now)
  /\ nDrmCalls' = nDrmCalls + 1
  /\ UNCHANGED <<now, drmClockSkewSeconds, nClockTicks>>
  /\ UNCHANGED notDrm

DrmNext ==
  \/ DrmTick
  \/ \E e \in ResponseErrors(now) : DrmHandle(e)
  \/ DrmAdjust
  \/ DrmToken

\* ===================================================================
\* submaker.ts: SubMaker (cues and their SRT rendering)
\* ===================================================================
\* 1s = 10^7 * 100ns
TicksPerSecond == 10000000

TicksPerMs == TicksPerSecond \div 1000

\* ticks / 1e7: a time in seconds, as its whole seconds and its fraction in
\* units of 1e-7 s (the rounding of the double is not modelled)
Seconds(ticks) ==
  [whole |-> ticks \div TicksPerSecond, frac |-> ticks % TicksPerSecond]

\* num.toString(): the decimal digits of a natural number
RECURSIVE Digits(_)
Digits(n) == IF n < 10 THEN <<n>> ELSE Append(Digits(n \div 10), n % 10)

\* num.toString().padStart(size, '0')
pad(num, size) ==
  LET d == Digits(num) IN
  IF Len(d) >= size THEN d ELSE [i \in 1..(size - Len(d)) |-> 0] \o d

\* formatTime(seconds): the four fields of HH:MM:SS,mmm as digit strings
formatTime(seconds) ==
  LET h == seconds.whole \div 3600
      m == (seconds.whole % 3600) \div 60
      s == seconds.whole % 60
      ms == (seconds.frac + TicksPerMs \div 2) \div TicksPerMs
  IN [h |-> pad(h, 2), m |-> pad(m, 2), s |-> pad(s, 2), ms |-> pad(ms, 3)]

\* a TTSChunk: has holds the optional fields that are not undefined. A text
\* is the sequence of its words, the pieces between single spaces
Chunk(type, has, offset, duration, txt) ==
  [type |-> type, has |-> has, offset |-> offset, duration |-> duration,
   text |-> txt]

Cue(index, start, end, content) ==
  [index |-> index, start |-> start, end |-> end, content |-> content]

SubOutcome(threw, cs) == [threw |-> threw, cues |-> cs]

\* (mutant) feed checks the type of the chunk only
feed_typeOnly(cs, msg) ==
  IF msg.type # "WordBoundary"
  THEN SubOutcome("ValueError", cs)
  ELSE SubOutcome("none",
         Append(cs, Cue(Len(cs) + 1, Seconds(msg.offset),
                        Seconds(msg.offset + msg.duration), msg.text)))

\* (mutant) feed numbers the cues from 0
feed_indexFromZero(cs, msg) ==
  IF msg.type # "WordBoundary" \/ "offset" \notin msg.has
       \/ "duration" \notin msg.has \/ "text" \notin msg.has
  THEN SubOutcome("ValueError", cs)
  ELSE SubOutcome("none",
         Append(cs, Cue(Len(cs), Seconds(msg.offset),
                        Seconds(msg.offset + msg.duration), msg.text)))

\* SubMaker.feed(msg)
feed(cs, msg) ==
  IF msg.type # "WordBoundary" \/ "offset" \notin msg.has
       \/ "duration" \notin msg.has \/ "text" \notin msg.has
  THEN SubOutcome("ValueError", cs)
  ELSE SubOutcome("none",
         Append(cs, Cue(Len(cs) + 1, Seconds(msg.offset),
                        Seconds(msg.offset + msg.duration), msg.text)))

\* (mutant) a cue takes one word more than asked
cueHasRoom_oneMore(currentCue, words) == Len(currentCue.content) <= words

\* currentCue.content.split(' ').length < words
cueHasRoom(currentCue, words) == Len(currentCue.content) < words

\* (mutant) the merged cue keeps its own end time
mergedCue_keepEnd(currentCue, cue) ==
  [currentCue EXCEPT !.content = currentCue.content \o cue.content]

\* {...currentCue, end: cue.end, content: `${currentCue.content} ${cue.content}`}
mergedCue(currentCue, cue) ==
  [currentCue EXCEPT !.end = cue.end,
                     !.content = currentCue.content \o cue.content]

\* the loop of mergeCues over this.cues.slice(1), and the push after it
RECURSIVE mergeLoop(_, _, _, _)
mergeLoop(rest, currentCue, newCues, words) ==
  IF rest = <<>> THEN Append(newCues, currentCue)
  ELSE LET cue == Head(rest) IN
       IF cueHasRoom(currentCue, words)
       THEN mergeLoop(Tail(rest), mergedCue(currentCue, cue), newCues, words)
       ELSE mergeLoop(Tail(rest), cue, Append(newCues, currentCue), words)

\* newCues.map((cue, i) => ({ ...cue, index: i + 1 }))
reindex(cs) == [i \in 1..Len(cs) |-> [cs[i] EXCEPT !.index = i]]

\* SubMaker.mergeCues(words)
mergeCues(cs, words) ==
  IF words <= 0 THEN SubOutcome("ValueError", cs)
  ELSE IF Len(cs) = 0 THEN SubOutcome("none", cs)
  ELSE SubOutcome("none", reindex(mergeLoop(Tail(cs), cs[1], <<>>, words)))

\* SubMaker.getSrt(): the blocks that join('\r\n') separates
getSrt(cs) ==
  [i \in 1..Len(cs) |->
     [index |-> Digits(cs[i].index),
      start |-> formatTime(cs[i].start),
      end |-> formatTime(cs[i].end),
      content |-> cs[i].content]]

\* ---------------------------------------------------------------- inputs
\* the n-th one-word WordBoundary event of a stream
WordChunks(n) ==
  {Chunk("WordBoundary", {"offset", "duration", "text"},
         n * (TicksPerSecond \div 2), TicksPerSecond \div 4, <<w>>) :
     w \in {"a", "b"}}

\* WordBoundary events with any times and texts
BoundaryChunks ==
  {Chunk("WordBoundary", {"offset", "duration", "text"}, o, d, t) :
     o \in {0, TicksPerSecond - 4 * 1000},
     d \in {4 * 1000, TicksPerSecond},
     t \in {<<"a">>, <<"b", "c">>}}

\* chunks feed does not accept
OtherChunks ==
  {Chunk("audio", {}, 0, 0, <<"">>)}
    \cup {Chunk("WordBoundary", {"offset", "duration", "text"} \ {f},
                0, TicksPerSecond, <<"a">>) :
            f \in {"offset", "duration", "text"}}

NoChunk == Chunk("none", {}, 0, 0, <<"">>)

SubCall(op, msg, words) == [op |-> op, msg |-> msg, words |-> words]

SubLast(op, threw, before) == [op |-> op, threw |-> threw, before |-> before]

SubIdle ==
  /\ cues = <<>> /\ subKind = "off" /\ subLog = <<>>
  /\ subLast = SubLast("none", "none", <<>>) /\ nSubCalls = 0

SubInit ==
  /\ cues = <<>>
  /\ subKind \in {"words", "any"}
  /\ subLog = <<>>
  /\ subLast = SubLast("none", "none", <<>>)
  /\ nSubCalls = 0

\* how many calls a run of this kind makes
SubBudget == IF subKind = "words" THEN MaxWordCalls ELSE MaxSubCalls

\* subMaker.feed(msg)
SubFeed(msg) ==
  /\ nSubCalls < SubBudget
  /\ \/ subKind = "words" /\ msg \in WordChunks(Len(subLog))
     \/ subKind = "any" /\ msg \in BoundaryChunks \cup OtherChunks
  /\ LET r == feed(cues, msg) IN
     /\ cues' = r.cues
     /\ subLast' = SubLast("feed", r.threw, cues)
     /\ subLog' = IF r.threw = "none"
                  THEN Append(subLog, SubCall("feed", msg, 0)) ELSE subLog
  /\ nSubCalls' = nSubCalls + 1
  /\ UNCHANGED subKind
  /\ UNCHANGED notSub

\* subMaker.mergeCues(words)
SubMerge(words) ==
  /\ nSubCalls < SubBudget
  /\ \/ subKind = "words" /\ words = 3
     \/ subKind = "any"
  /\ LET r == mergeCues(cues, words) IN
     /\ cues' = r.cues
     /\ subLast' = SubLast("mergeCues", r.threw, cues)
     /\ subLog' = IF r.threw = "none"
                  THEN Append(subLog, SubCall("mergeCues", NoChunk, words))
                  ELSE subLog
  /\ nSubCalls' = nSubCalls + 1
  /\ UNCHANGED subKind
  /\ UNCHANGED notSub

SubNext ==
  \/ \E msg \in UNION {WordChunks(n) : n \in 0..MaxWordCalls}
                  \cup BoundaryChunks \cup OtherChunks : SubFeed(msg)
  \/ \E words \in -1..3 : SubMerge(words)

\* ===================================================================
\* Binary messages on the wire
\* ===================================================================
\* One unit of a message after its two length bytes is either a whole header
\* line ("key:value\r\n") or a byte that belongs to no header line.
HeaderLine(key, value) == [key |-> key, value |-> value]

DataByte == HeaderLine("", "")

\* message.readUInt16BE(0)
readUInt16BE(message) == message[1] * 256 + message[2]

\* headers[key] after the loop over headerString.split('\r\n'): a later line
\* replaces an earlier one, a line without key and value is skipped
RECURSIVE headerOf(_, _)
headerOf(block, key) ==
  IF block = <<>> THEN NoHeader
  ELSE LET line == block[Len(block)] IN
       IF line.key = key /\ line.value # "" THEN line.value
       ELSE headerOf(SubSeq(block, 1, Len(block) - 1), key)

Decoded(block, data) == [block |-> block, data |-> data]

getHeadersAndDataFromBinary(message) ==
  LET headerLength == readUInt16BE(message) IN
  Decoded(subarray(message, 2, headerLength + 2),
          subarray(message, headerLength + 2, Len(message)))

browserGetHeadersAndDataFromBinary(message) ==
  LET headerLength == readUInt16BE(message) IN
  Decoded(IF headerLength > 0 /\ headerLength + 2 <= Len(message)
          THEN subarray(message, 2, headerLength + 2)
          ELSE <<>>,
          subarray(message, headerLength + 2, Len(message)))

\* what the length checks of the 'message' listener let through
NotDecoded == Decoded(<<>>, <<>>)

decodeBinary(message, v) ==
  IF Len(message) < 2 THEN NotDecoded
  ELSE IF v = "browser" THEN browserGetHeadersAndDataFromBinary(message)
  ELSE IF readUInt16BE(message) > Len(message) THEN NotDecoded
  ELSE getHeadersAndDataFromBinary(message)

\* the binary branch of the listener, from the bytes to the frame it handles
frameOfMessage(message, v) ==
  IF Len(message) < 2 THEN BinaryFrame(TRUE, FALSE, "", "", 0)
  ELSE IF v # "browser" /\ readUInt16BE(message) > Len(message)
  THEN BinaryFrame(FALSE, TRUE, "", "", 0)
  ELSE LET d == decodeBinary(message, v) IN
       BinaryFrame(FALSE, FALSE, headerOf(d.block, "Path"),
                   headerOf(d.block, "Content-Type"), Len(d.data))

\* ---------------------------------------------------------------- inputs
WireUnits ==
  {HeaderLine("Path", "audio"), HeaderLine("Path", "other"),
   HeaderLine("Content-Type", "audio/mpeg"),
   HeaderLine("Content-Type", "text/plain"), DataByte}

RECURSIVE WireBodies(_)
WireBodies(k) ==
  IF k = 0 THEN {<<>>}
  ELSE LET shorter == WireBodies(k - 1)
       IN shorter \cup {Append(b, u) : b \in shorter, u \in WireUnits}

\* every declared header length up to one more than the longest message
WireMessages ==
  {<<>>, <<0>>}
    \cup {<<hi, lo>> \o b : hi \in {0, 1}, lo \in 0..(MaxWireUnits + 3),
                           b \in WireBodies(MaxWireUnits)}

NoMessage == <<>>

WireOutcome(m, block, data, push) ==
  [message |-> m, block |-> block, data |-> data, push |-> push, seen |-> TRUE]

WireIdle ==
  /\ wireVariant = "node" /\ wire = NoMessage
  /\ wireLast = [seen |-> FALSE]

WireInit ==
  /\ wireVariant \in Variants
  /\ wire \in WireMessages
  /\ wireLast = [seen |-> FALSE]

\* the 'message' listener on a binary message
WireMessage ==
  /\ ~wireLast.seen
  /\ LET d == decodeBinary(wire, wireVariant)
         r == handleBinary(frameOfMessage(wire, wireVariant), 0, 0)
     IN wireLast' = WireOutcome(wire, d.block, d.data, r.push)
  /\ UNCHANGED <<wireVariant, wire>>
  /\ UNCHANGED notWire

WireNext == WireMessage

\* ===================================================================
\* TTSConfig
\* ===================================================================
\* A string is a sequence of characters; "Neural", "Hz", "Emma" and the
\* fixed beginning of a full voice name are kept whole.
Lower == {"e", "n"}
Upper == {"U", "S"}
Digit == {"0", "1"}
LineTerminator == {"\n"}

VoicePrefix == "Microsoft Server Speech Text to Speech Voice "

DEFAULT_VOICE == <<"e", "n", "-", "U", "S", "-", "Emma", "Neural">>
DefaultPercent == <<"+", "0", "%">>
DefaultPitch == <<"+", "0", "Hz">>

\* an option that was not given
Undefined == <<"undefined">>

\* the first position from `from` whose character is outside the class
RunEnd(str, from, class) ==
  LET stops == {k \in from..Len(str) : str[k] \notin class}
  IN IF stops = {} THEN Len(str) + 1 ELSE MinOf(stops)

\* str matches /^.*$/: '.' matches no line terminator
Dots(str) == \A k \in DOMAIN str : str[k] \notin LineTerminator

Match(lang, region, name) ==
  [matched |-> TRUE, lang |-> lang, region |-> region, name |-> name]

NoMatch == [matched |-> FALSE, lang |-> <<>>, region |-> <<>>, name |-> <<>>]

\* ([a-z]{2,})-([A-Z]{2,})-(.+Neural) matched from position i to position e
shortMatchAt(voice, i, e) ==
  LET d1 == RunEnd(voice, i, Lower)
      d2 == RunEnd(voice, d1 + 1, Upper)
  IN IF /\ i >= 1 /\ e <= Len(voice)
        /\ d1 - i >= 2 /\ d1 <= e /\ voice[d1] = "-"
        /\ d2 - d1 - 1 >= 2 /\ d2 <= e /\ voice[d2] = "-"
        /\ e - d2 >= 2 /\ voice[e] = "Neural"
        /\ Dots(SubSeq(voice, d2 + 1, e))
     THEN Match(SubSeq(voice, i, d1 - 1), SubSeq(voice, d1 + 1, d2 - 1),
                SubSeq(voice, d2 + 1, e))
     ELSE NoMatch

\* (mutant) the pattern without its anchors: the leftmost match, '.+' greedy
matchShort_unanchored(voice) ==
  LET n == Len(voice)
      hits == {h \in (1..n) \X (1..n) : shortMatchAt(voice, h[1], h[2]).matched}
  IN IF hits = {} THEN NoMatch
     ELSE LET i == MinOf({h[1] : h \in hits})
              e == Max({h[2] : h \in {g \in hits : g[1] = i}})
          IN shortMatchAt(voice, i, e)

\* /^([a-z]{2,})-([A-Z]{2,})-(.+Neural)$/.exec(this.voice)
matchShort(voice) == shortMatchAt(voice, 1, Len(voice))

\* name.split('-')[0] and name.split('-')[1] of a name that includes '-'
Parts0(name) == SubSeq(name, 1, indexOf(name, "-", 0))

Parts1(name) ==
  LET first == indexOf(name, "-", 0)
      second == indexOf(name, "-", first + 1)
  IN SubSeq(name, first + 2, IF second = -1 THEN Len(name) ELSE second)

FullVoice(lang, region, name) ==
  <<VoicePrefix, "(">> \o lang \o <<"-">> \o region \o <<",", " ">> \o name
    \o <<")">>

\* the voice transformation at the head of validate()
normalizeVoice(voice) ==
  LET match == matchShort(voice) IN
  IF match.matched
  THEN IF indexOf(match.name, "-", 0) # -1
       THEN FullVoice(match.lang,
                      match.region \o <<"-">> \o Parts0(match.name),
                      Parts1(match.name))
       ELSE FullVoice(match.lang, match.region, match.name)
  ELSE voice

\* /^Microsoft Server Speech Text to Speech Voice \(.+,.+\)$/.test(voice)
testVoice(voice) ==
  LET n == Len(voice) IN
  /\ n >= 6
  /\ voice[1] = VoicePrefix /\ voice[2] = "(" /\ voice[n] = ")"
  /\ Dots(SubSeq(voice, 3, n - 1))
  /\ \E c \in 4..(n - 2) : voice[c] = ","

\* /^[+-]\d+<unit>$/.test(str), the unit being "%" or "Hz"
testSigned(str, unit) ==
  LET n == Len(str) IN
  /\ n >= 3
  /\ str[1] \in {"+", "-"}
  /\ \A k \in 2..(n - 1) : str[k] \in Digit
  /\ str[n] = unit

Config(voice, rate, volume, pitch) ==
  [voice |-> voice, rate |-> rate, volume |-> volume, pitch |-> pitch]

Validated(error, config) == [error |-> error, config |-> config]

\* (mutant) the volume is not validated
validate_skipVolume(this) ==
  LET config == [this EXCEPT !.voice = normalizeVoice(this.voice)] IN
  IF /\ testVoice(config.voice)
     /\ testSigned(config.rate, "%")
     /\ testSigned(config.pitch, "Hz")
  THEN Validated("none", config)
  ELSE Validated("ValueError", config)

\* validate(): every parameter is a string here, so validateStringParam
\* throws ValueError or nothing
validate(this) ==
  LET config == [this EXCEPT !.voice = normalizeVoice(this.voice)] IN
  IF /\ testVoice(config.voice)
     /\ testSigned(config.rate, "%")
     /\ testSigned(config.volume, "%")
     /\ testSigned(config.pitch, "Hz")
  THEN Validated("none", config)
  ELSE Validated("ValueError", config)

\* a destructured parameter with a default
OrDefault(option, default) == IF option = Undefined THEN default ELSE option

\* new TTSConfig({voice, rate, volume, pitch})
TTSConfig(options) ==
  validate(Config(options.voice,
                  OrDefault(options.rate, DefaultPercent),
                  OrDefault(options.volume, DefaultPercent),
                  OrDefault(options.pitch, DefaultPitch)))

\* options.voice || DEFAULT_VOICE
VoiceOrDefault(voice) ==
  IF voice = Undefined \/ voice = <<>> THEN DEFAULT_VOICE ELSE voice

\* what mkssml puts into its template
mkssml(tc, escapedText) ==
  [voice |-> tc.voice, pitch |-> tc.pitch, rate |-> tc.rate,
   volume |-> tc.volume, text |-> escapedText]

\* ---------------------------------------------------------------- inputs
ShortVoice(lang, region, name) == lang \o <<"-">> \o region \o <<"-">> \o name

VoiceOptions ==
  {Undefined, <<>>, DEFAULT_VOICE,
   ShortVoice(<<"e", "n">>, <<"U", "S">>, <<"n", "-", "Emma", "Neural">>),
   ShortVoice(<<"e", "n">>, <<"U", "S">>,
              <<"n", "-", "Emma", "-", "e", "Neural">>),
   ShortVoice(<<"e", "n">>, <<"U", "S">>, <<"n", "-", "-", "Neural">>),
   ShortVoice(<<"e", "n", "e">>, <<"U", "S", "U">>, <<"-", "Neural">>),
   ShortVoice(<<"e", "n">>, <<"U", "S">>, <<"Neural">>),
   ShortVoice(<<"e">>, <<"U", "S">>, <<"Emma", "Neural">>),
   ShortVoice(<<"e", "n">>, <<"U">>, <<"Emma", "Neural">>),
   ShortVoice(<<"e", "n">>, <<"U", "S">>, <<"Emma", "\n", "Neural">>),
   ShortVoice(<<"e", "n">>, <<"U", "S">>, <<"Emma", "Neural", "e">>),
   ShortVoice(<<"U", "e", "n">>, <<"U", "S">>, <<"Emma", "Neural">>),
   ShortVoice(<<"e", "n">>, <<"U", "S">>, <<"Emma">>),
   FullVoice(<<"e", "n">>, <<"U", "S">>, <<"Emma", "Neural">>),
   FullVoice(<<"e", "n">>, <<"U", "S", "-", "n">>, <<"Emma", "Neural">>),
   FullVoice(<<"e">>, <<>>, <<"Emma">>),
   FullVoice(<<"e", "n">>, <<"U", "S">>, <<"Emma", "\n">>),
   FullVoice(<<"e", "n">>, <<"U", "S">>, <<"Emma", "Neural">>) \o <<"e">>,
   <<VoicePrefix, "(", ",", ")">>,
   <<VoicePrefix, "(", "e", ",", ")">>,
   <<VoicePrefix, "(", "e", " ", "n", ")">>,
   <<"(", "e", ",", "n", ")">>}

PercentOptions ==
  {Undefined, <<>>, <<"+", "1", "%">>, <<"-", "1", "0", "%">>, <<"+", "%">>,
   <<"1", "%">>, <<"+", "1">>, <<"+", "1", "Hz">>, <<"+", "1", "%", "%">>,
   <<"+", "-", "1", "%">>}

PitchOptions ==
  {Undefined, <<"-", "1", "Hz">>, <<"+", "1", "0", "Hz">>, <<"+", "Hz">>,
   <<"+", "1", "%">>, <<"1", "Hz">>, <<"+", "1", "Hz", "Hz">>}

NoConfig == Config(<<>>, <<>>, <<>>, <<>>)

NotAgain == [made |-> FALSE]

TtsIdle ==
  /\ ttsOptions = NoConfig /\ ttsConfig = NoConfig
  /\ ttsError = "unconstructed" /\ ttsAgain = NotAgain /\ ssmlSent = <<>>

TtsInit == TtsIdle

\* new Communicate(text, options): the TTSConfig it builds or what it throws
TtsConstruct(options) ==
  /\ ttsError = "unconstructed"
  /\ LET made == TTSConfig([options EXCEPT
                              !.voice = VoiceOrDefault(options.voice)])
     IN /\ ttsError' = made.error
        /\ ttsConfig' = IF made.error = "none" THEN made.config ELSE NoConfig
  /\ ttsOptions' = options
  /\ UNCHANGED <<ttsAgain, ssmlSent>>
  /\ UNCHANGED notTts

\* a session of _stream() builds its ssml message from the configuration
TtsMkssml ==
  /\ ttsError = "none"
  /\ Len(ssmlSent) < MaxSsml
  /\ ssmlSent' = Append(ssmlSent, mkssml(ttsConfig, Len(ssmlSent) + 1))
  /\ UNCHANGED <<ttsOptions, ttsConfig, ttsError, ttsAgain>>
  /\ UNCHANGED notTts

\* new TTSConfig({voice: ttsConfig.voice})
TtsAgain ==
  /\ ttsError = "none"
  /\ ~ttsAgain.made
  /\ LET made == TTSConfig(Config(ttsConfig.voice, Undefined, Undefined,
                                  Undefined))
     IN ttsAgain' = [made |-> TRUE, error |-> made.error,
                     voice |-> made.config.voice]
  /\ UNCHANGED <<ttsOptions, ttsConfig, ttsError, ssmlSent>>
  /\ UNCHANGED notTts

\* the constructor runs once, with any of the bounded option sets
TtsConstructor ==
  /\ ttsError = "unconstructed"
  /\ \E voice \in VoiceOptions, rate \in PercentOptions,
        volume \in PercentOptions, pitch \in PitchOptions :
       TtsConstruct(Config(voice, rate, volume, pitch))

TtsNext == TtsConstructor \/ TtsMkssml \/ TtsAgain

\* ===================================================================
\* VoicesManager
\* ===================================================================
\* A voice of the service's list; a value is a sequence of characters, the
\* parts of a locale between hyphens being kept whole.
Voice(gender, locale) == [Gender |-> gender, Locale |-> locale]

\* voice.Locale.split('-')[0]
LanguageOf(locale) ==
  LET hyphen == indexOf(locale, "-", 0)
  IN IF hyphen = -1 THEN locale ELSE SubSeq(locale, 1, hyphen)

\* {...voice, Language: voice.Locale.split('-')[0]}
VoicesManagerVoice(voice) ==
  [Gender |-> voice.Gender, Locale |-> voice.Locale,
   Language |-> LanguageOf(voice.Locale)]

\* (mutant) a voice is kept when some entry of the filter equals its value
matchesFilter_some(voice, filter) ==
  \E key \in DOMAIN filter : voice[key] = filter[key]

\* Object.entries(filter).every(([key, value]) => voice[key] === value)
matchesFilter(voice, filter) ==
  \A key \in DOMAIN filter : voice[key] = filter[key]

\* this.voices.filter(...)
RECURSIVE filterVoices(_, _)
filterVoices(list, filter) ==
  IF list = <<>> THEN <<>>
  ELSE IF matchesFilter(Head(list), filter)
  THEN <<Head(list)>> \o filterVoices(Tail(list), filter)
  ELSE filterVoices(Tail(list), filter)

FindOutcome(filter, error, result) ==
  [called |-> TRUE, filter |-> filter, error |-> error, result |-> result]

find(filter) ==
  IF ~calledCreate THEN FindOutcome(filter, "Error", <<>>)
  ELSE FindOutcome(filter, "none", filterVoices(voices, filter))

\* ---------------------------------------------------------------- inputs
Genders == {<<"Female">>, <<"Male">>}

Locales == {<<"en", "-", "US">>, <<"en", "-", "GB">>,
            <<"zh", "-", "CN", "-", "liaoning">>, <<"fr">>}

RawVoices == {Voice(g, l) : g \in Genders, l \in Locales}

RECURSIVE VoiceLists(_)
VoiceLists(k) ==
  IF k = 0 THEN {<<>>}
  ELSE LET shorter == VoiceLists(k - 1)
       IN shorter \cup {Append(l, v) : l \in shorter, v \in RawVoices}

FilterValues(key) ==
  IF key = "Gender" THEN {<<"Female">>}
  ELSE IF key = "Locale"
  THEN {<<"en", "-", "US">>, <<"zh", "-", "CN", "-", "liaoning">>}
  ELSE {<<"en">>, <<"zh">>, <<"fr">>, <<"zh", "-", "CN">>}

\* the filters: any subset of the three keys, each with one of its values
Filters ==
  UNION {{f \in [keys -> UNION {FilterValues(k) : k \in keys}] :
            \A k \in keys : f[k] \in FilterValues(k)} :
         keys \in SUBSET {"Gender", "Locale", "Language"}}

NoFind == [called |-> FALSE]

VmIdle ==
  /\ manager = "none" /\ voices = <<>> /\ calledCreate = FALSE
  /\ findLast = NoFind /\ nFinds = 0

VmInit == VmIdle

\* VoicesManager.create(customVoices), or create() with the list fetched
VmCreate(list) ==
  /\ manager = "none"
  /\ manager' = "create"
  /\ voices' = [i \in DOMAIN list |-> VoicesManagerVoice(list[i])]
  /\ calledCreate' = TRUE
  /\ UNCHANGED <<findLast, nFinds>>
  /\ UNCHANGED notVm

\* new VoicesManager()
VmNew ==
  /\ manager = "none"
  /\ manager' = "new"
  /\ voices' = <<>>
  /\ calledCreate' = FALSE
  /\ UNCHANGED <<findLast, nFinds>>
  /\ UNCHANGED notVm

VmFind(filter) ==
  /\ manager # "none"
  /\ nFinds < MaxFinds
  /\ findLast' = find(filter)
  /\ nFinds' = nFinds + 1
  /\ UNCHANGED <<manager, voices, calledCreate>>
  /\ UNCHANGED notVm

VmNext ==
  \/ \E list \in VoiceLists(MaxVoices) : VmCreate(list)
  \/ VmNew
  \/ \E filter \in Filters : VmFind(filter)

\* ===================================================================
\* Text messages on the wire
\* ===================================================================
\* A text message is a sequence of ASCII characters, so its bytes and its
\* decoded string are the same sequence.
CRLF == <<"CR", "LF">>

AsciiWhitespace == {" ", "CR", "LF"}

\* str.indexOf(pattern), 0-based
indexOfSeq(str, pattern) ==
  LET hits == {i \in 0..(Len(str) - Len(pattern)) :
                 SubSeq(str, i + 1, i + Len(pattern)) = pattern}
  IN IF hits = {} THEN -1 ELSE MinOf(hits)

\* str.split(separator)
RECURSIVE split(_, _)
split(str, separator) ==
  LET i == indexOfSeq(str, separator) IN
  IF i = -1 THEN <<str>>
  ELSE <<SubSeq(str, 1, i)>>
         \o split(SubSeq(str, i + Len(separator) + 1, Len(str)), separator)

\* str.split(separator, limit): the first `limit` pieces, the rest dropped
splitLimit(str, separator, limit) ==
  LET pieces == split(str, separator)
  IN SubSeq(pieces, 1, Min(limit, Len(pieces)))

\* value.trim()
RECURSIVE trimText(_)
trimText(str) ==
  IF str # <<>> /\ Head(str) \in AsciiWhitespace THEN trimText(Tail(str))
  ELSE IF str # <<>> /\ str[Len(str)] \in AsciiWhitespace
  THEN trimText(SubSeq(str, 1, Len(str) - 1))
  ELSE str

\* headers[key] = value
setHeader(headers, key, value) ==
  [k \in DOMAIN headers \cup {key} |-> IF k = key THEN value ELSE headers[k]]

\* the loop over headerString.split('\r\n')
RECURSIVE parseHeaderLines(_, _)
parseHeaderLines(headerLines, headers) ==
  IF headerLines = <<>> THEN headers
  ELSE LET parts == splitLimit(Head(headerLines), <<":">>, 2)
           key == parts[1]
       IN parseHeaderLines(
            Tail(headerLines),
            IF key # <<>> /\ Len(parts) = 2 /\ parts[2] # <<>>
            THEN setHeader(headers, key, trimText(parts[2]))
            ELSE headers)

NoHeaders == <<>>

TextDecoded(headers, data) == [done |-> TRUE, headers |-> headers, data |-> data]

\* message.subarray(start, end) of a Buffer: a negative end counts from the end
bufferSubarray(message, start, end) ==
  LET n == Len(message)
      to == IF end < 0 THEN (IF n + end > 0 THEN n + end ELSE 0) ELSE Min(end, n)
      from == Min(start, n)
  IN SubSeq(message, from + 1, to)

getHeadersAndDataFromText(message) ==
  LET headerLength == indexOfSeq(message, CRLF \o CRLF)
      headerString == bufferSubarray(message, 0, headerLength)
  IN TextDecoded(IF headerString # <<>>
                 THEN parseHeaderLines(split(headerString, CRLF), NoHeaders)
                 ELSE NoHeaders,
                 bufferSubarray(message, headerLength + 2, Len(message)))

\* messageString.substring(0, end)
substring0(str, end) == SubSeq(str, 1, Min(IF end < 0 THEN 0 ELSE end, Len(str)))

browserGetHeadersAndDataFromText(message) ==
  LET headerEndIndex == indexOfSeq(message, CRLF \o CRLF)
      headerByteLength == Len(substring0(message, headerEndIndex + 4))
  IN TextDecoded(IF headerEndIndex # -1
                 THEN parseHeaderLines(
                        split(substring0(message, headerEndIndex), CRLF),
                        NoHeaders)
                 ELSE NoHeaders,
                 SubSeq(message, headerByteLength + 1, Len(message)))

\* ---------------------------------------------------------------- inputs
TextLines ==
  {<<"P", ":", "a">>, <<"P", ":", " ", "a">>, <<"T", ":", "a", ":", "b">>,
   <<"P">>, <<":", "a">>, <<"P", ":">>}

RECURSIVE HeaderBlocks(_)
HeaderBlocks(k) ==
  IF k = 0 THEN {<<>>}
  ELSE LET fewer == HeaderBlocks(k - 1)
       IN fewer \cup {l : l \in TextLines}
                \cup {b \o CRLF \o l : b \in fewer \ {<<>>}, l \in TextLines}

TextBodies ==
  {<<>>, <<"{", "}">>, <<"{">> \o CRLF \o CRLF \o <<"}">>, CRLF \o <<"{", "}">>}

\* header block, blank line, body; and messages without a blank line
TextMessages ==
  {b \o CRLF \o CRLF \o d : b \in HeaderBlocks(MaxHeaderLines), d \in TextBodies}
    \cup HeaderBlocks(MaxHeaderLines)
    \cup {b \o CRLF : b \in HeaderBlocks(MaxHeaderLines)}

NotDecodedYet == [done |-> FALSE]

TextDecoders == {"node", "browser"}

TextIdle ==
  /\ textMessage = <<>>
  /\ textDecoded = [v \in TextDecoders |-> TextDecoded(NoHeaders, <<>>)]

TextInit ==
  /\ textMessage \in TextMessages
  /\ textDecoded = [v \in TextDecoders |-> NotDecodedYet]

\* the text branch of a 'message' listener decodes the message
TextDecode(v) ==
  /\ ~textDecoded[v].done
  /\ textDecoded' =
       [textDecoded EXCEPT
          ![v] = IF v = "browser"
                 THEN browserGetHeadersAndDataFromText(textMessage)
                 ELSE getHeadersAndDataFromText(textMessage)]
  /\ UNCHANGED textMessage
  /\ UNCHANGED notText

TextNext == \E v \in TextDecoders : TextDecode(v)

\* ===================================================================
\* listVoices
\* ===================================================================
\* what axios.get settles with: the voice list, an AxiosError (with or
\* without a response), or another error
Fulfilled == [ok |-> TRUE, axios |-> FALSE, status |-> 200, e |-> NoResponse]

AxiosFailure(status, e) == [ok |-> FALSE, axios |-> TRUE, status |-> status, e |-> e]

OtherFailure == [ok |-> FALSE, axios |-> FALSE, status |-> 0, e |-> NoResponse]

\* the request _listVoices issues: its Sec-MS-GEC token, made at `at`
Request(skew, at) ==
  [token |-> StrToHash(getUnixTimestamp(at, skew)), skew |-> skew, at |-> at]

\* e instanceof AxiosError && e.response?.status === 403
IsForbidden(r) == r.axios /\ r.e.response /\ r.status = 403

\* ---------------------------------------------------------------- inputs
Settlements(wall) ==
  {Fulfilled, OtherFailure, AxiosFailure(0, NoResponse)}
    \cup {AxiosFailure(st, e) :
            st \in {403, 500},
            e \in {x \in ResponseErrors(wall) : x.response}}

ListIdle ==
  /\ listPc = "off" /\ requests = <<>> /\ responses = <<>>
  /\ listError = "none"

ListInit ==
  /\ listPc = "start" /\ requests = <<>> /\ responses = <<>>
  /\ listError = "none"

\* listVoices() is called: _listVoices builds the url and issues the request
ListCall ==
  /\ listPc = "start"
  /\ requests' = <<Request(drmClockSkewSeconds, now)>>
  /\ listPc' = "first"
  /\ UNCHANGED <<responses, listError>>
  /\ UNCHANGED drmVars
  /\ UNCHANGED notList

\* the first request settles: return, or the catch block of listVoices
ListFirstSettles(r) ==
  /\ listPc = "first"
  /\ responses' = Append(responses, r)
  /\ IF r.ok
     THEN /\ listPc' = "returned"
          /\ UNCHANGED <<requests, listError, drmClockSkewSeconds, drmLast>>
     ELSE IF IsForbidden(r)
     THEN LET h == drmHandle(r.e, now, drmClockSkewSeconds) IN
          /\ drmClockSkewSeconds' = h.skew
          /\ drmLast' = DrmCall("handle", r.e, h.threw, drmClockSkewSeconds, now)
          /\ IF h.threw = "none"
             THEN /\ requests' = Append(requests, Request(h.skew, now))
                  /\ listPc' = "second"
                  /\ UNCHANGED listError
             ELSE /\ listPc' = "threw"
                  /\ listError' = h.threw
                  /\ UNCHANGED requests
     ELSE /\ listPc' = "threw"
          /\ listError' = IF r.axios THEN "AxiosError" ELSE "Error"
          /\ UNCHANGED <<requests, drmClockSkewSeconds, drmLast>>
  /\ UNCHANGED <<now, tokens, nDrmCalls, nClockTicks>>
  /\ UNCHANGED notList

\* the second request settles: return its list or throw its error
ListSecondSettles(r) ==
  /\ listPc = "second"
  /\ responses' = Append(responses, r)
  /\ listPc' = IF r.ok THEN "returned" ELSE "threw"
  /\ listError' = IF r.ok THEN "none"
                  ELSE IF r.axios THEN "AxiosError" ELSE "Error"
  /\ UNCHANGED requests
  /\ UNCHANGED drmVars
  /\ UNCHANGED notList

\* a second passes while a request is in flight
ListTick ==
  /\ listPc \in {"start", "first", "second"}
  /\ nClockTicks < MaxClockTicks
  /\ now' = now + 1
  /\ nClockTicks' = nClockTicks + 1
  /\ UNCHANGED <<drmClockSkewSeconds, tokens, drmLast, nDrmCalls>>
  /\ UNCHANGED listVars
  /\ UNCHANGED notList

ListNext ==
  \/ ListCall
  \/ \E r \in Settlements(now) : ListFirstSettles(r)
  \/ \E r \in Settlements(now) : ListSecondSettles(r)
  \/ ListTick

\* ===================================================================
\* Specifications
\* ===================================================================
\* ===================================================================
\* The Communicate classes fed the same transport events
\* ===================================================================
notCmp == <<engineVars, splitVars, drmVars, subVars, wireVars, ttsVars, vmVars,
  textVars, listVars,
  blobVars,
  duoVars>>

\* an instance in the session of segment seg: its state, the loop's
\* audioWasReceived, what stream() yielded and how it or its session ended
Instance(seg, comp, ldo) ==
  [seg |-> seg, comp |-> comp, ldo |-> ldo, audio |-> FALSE, yielded |-> <<>>,
   end |-> "none"]

\* the consumer loop of _stream() run on the items a listener queued, by a
\* consumer that keeps pulling
RECURSIVE consume(_, _)
consume(st, queue) ==
  IF queue = <<>> \/ st.end # "none"
  THEN st
  ELSE LET message == shift(queue).message IN
       IF message.type = "close"
       THEN [st EXCEPT !.end = IF CloseOutcome(st.audio) = "break"
                               THEN "normal" ELSE "NoAudioReceived"]
       ELSE IF message.type = "error"
       THEN [st EXCEPT !.end = message.kind]
       ELSE consume([st EXCEPT !.audio = @ \/ message.type = "audio",
                               !.yielded = Append(@, message)],
                    shift(queue).rest)

\* the 'message' listener of class v on frame f, then the consumer loop
onMessage(st, f, v) ==
  LET r == handleMessage(f, v, st.comp, st.ldo) IN
  consume([st EXCEPT !.ldo = r.ldo, !.comp = r.comp], r.push)

\* the 'error' listeners of class v, then the consumer loop
onError(st, v) == consume(st, ErrorPush(v))

\* the 'close' listener, then the consumer loop and, when the session ended
\* normally and a segment is left, stream() going on to the next session
onClose(st, segs) ==
  LET ended == consume(st, <<CloseItem>>) IN
  IF ended.end = "normal" /\ st.end = "none" /\ st.seg < segs
  THEN [ended EXCEPT !.seg = st.seg + 1, !.audio = FALSE, !.end = "none"]
  ELSE ended

CmpIdle ==
  /\ cmpRun = [v \in Variants |-> Instance(0, 0, 0)]
  /\ cmpSegs = 0 /\ cmpSeg = 0 /\ cmpTransport = "none"
  /\ cmpKinds = "none" /\ cmpFed = 0

\* every class was constructed with the same text and its first session is open
CmpInit ==
  /\ cmpRun = [v \in Variants |-> Instance(1, 0, 0)]
  /\ cmpSegs \in 1..MaxSegs
  /\ cmpSeg = 1
  /\ cmpTransport = "open"
  /\ cmpKinds \in {"timeline", "all"}
  /\ cmpFed = 0

CmpBudget == IF cmpKinds = "timeline" THEN MaxFrames ELSE MaxFramesOther

\* the instances whose WebSocket is the one of the current session
Listening(v) == cmpRun[v].seg = cmpSeg

\* the transport delivers frame f to every class
CmpFrame(f) ==
  /\ cmpTransport = "open" /\ cmpFed < CmpBudget /\ f \in FramesOf(cmpKinds)
  /\ cmpRun' = [v \in Variants |->
                  IF Listening(v) THEN onMessage(cmpRun[v], f, v) ELSE cmpRun[v]]
  /\ cmpTransport' = IF ~f.binary /\ f.path = "turn.end" THEN "ending" ELSE "open"
  /\ cmpFed' = cmpFed + 1
  /\ UNCHANGED <<cmpSegs, cmpSeg, cmpKinds>>
  /\ UNCHANGED notCmp

\* the open transport reports an error to every class
CmpTransportError ==
  /\ cmpTransport = "open" /\ cmpKinds = "all"
  /\ cmpRun' = [v \in Variants |->
                  IF Listening(v) THEN onError(cmpRun[v], v) ELSE cmpRun[v]]
  /\ cmpTransport' = "ending"
  /\ UNCHANGED <<cmpSegs, cmpSeg, cmpKinds, cmpFed>>
  /\ UNCHANGED notCmp

\* the transport's close event reaches every class; the classes that go on
\* open the session of the next segment
CmpClose ==
  /\ cmpTransport \in {"open", "ending"}
  /\ cmpRun' = [v \in Variants |->
                  IF Listening(v) THEN onClose(cmpRun[v], cmpSegs) ELSE cmpRun[v]]
  /\ IF \E v \in Variants : cmpRun'[v].seg = cmpSeg + 1
     THEN cmpSeg' = cmpSeg + 1 /\ cmpTransport' = "open"
     ELSE cmpSeg' = cmpSeg /\ cmpTransport' = "closed"
  /\ UNCHANGED <<cmpSegs, cmpKinds, cmpFed>>
  /\ UNCHANGED notCmp

CmpNext ==
  \/ \E f \in Frames : CmpFrame(f)
  \/ CmpTransportError
  \/ CmpClose

\* ===================================================================
\* browser-communicate.ts: a session whose binary frames arrive as Blobs
\* ===================================================================
notBlob == <<engineVars, splitVars, drmVars, subVars, wireVars, ttsVars, vmVars,
  textVars, listVars, cmpVars,
  duoVars>>

\* the items a listener queues, each with the number of the frame it is for
Numbered(items, n) == [i \in 1..Len(items) |-> [item |-> items[i], n |-> n]]

BlobIdle ==
  /\ blobState = [comp |-> 0, ldo |-> 0]
  /\ blobWs = "none" /\ blobRecv = <<>> /\ blobPending = {}
  /\ blobQueue = <<>> /\ blobAudio = FALSE /\ blobYielded = <<>>
  /\ blobEnd = "off"

\* the session is open, the handshake sent, the consumer in the loop
BlobInit ==
  /\ blobState = [comp |-> 0, ldo |-> 0]
  /\ blobWs = "open" /\ blobRecv = <<>> /\ blobPending = {}
  /\ blobQueue = <<>> /\ blobAudio = FALSE /\ blobYielded = <<>>
  /\ blobEnd = "none"

\* websocket.onmessage: a text frame is handled at once, for a Blob the
\* conversion is started and the listener returns
BlobMessage(f) ==
  /\ blobWs = "open" /\ Len(blobRecv) < MaxFrames /\ f \in TimelineFrames
  /\ LET n == Len(blobRecv) + 1 IN
     /\ blobRecv' = Append(blobRecv, f)
     /\ IF f.binary
        THEN /\ blobPending' = blobPending \cup {n}
             /\ UNCHANGED <<blobState, blobQueue, blobWs>>
        ELSE LET r == handleText(f, "browser", blobState.comp, blobState.ldo) IN
             /\ blobState' = [comp |-> r.comp, ldo |-> r.ldo]
             /\ blobQueue' = blobQueue \o Numbered(r.push, n)
             /\ blobWs' = IF r.close THEN "closing" ELSE blobWs
             /\ UNCHANGED blobPending
  /\ UNCHANGED <<blobAudio, blobYielded, blobEnd>>
  /\ UNCHANGED notBlob

\* the callback of data.arrayBuffer().then(...) for the Blob of frame n
BlobConverted(n) ==
  /\ n \in blobPending
  /\ blobPending' = blobPending \ {n}
  /\ LET r == handleBinary(blobRecv[n], blobState.comp, blobState.ldo) IN
     blobQueue' = blobQueue \o Numbered(r.push, n)
  /\ UNCHANGED <<blobState, blobWs, blobRecv, blobAudio, blobYielded, blobEnd>>
  /\ UNCHANGED notBlob

\* websocket.onclose
BlobClose ==
  /\ blobWs \in {"open", "closing"}
  /\ blobWs' = "closed"
  /\ blobQueue' = Append(blobQueue, [item |-> CloseItem, n |-> 0])
  /\ UNCHANGED <<blobState, blobRecv, blobPending, blobAudio, blobYielded, blobEnd>>
  /\ UNCHANGED notBlob

\* one iteration of the consumer loop on a non-empty queue
BlobLoop ==
  /\ blobEnd = "none" /\ blobQueue # <<>>
  /\ LET message == shift(blobQueue).message IN
     /\ blobQueue' = shift(blobQueue).rest
     /\ IF message.item.type = "close"
        THEN /\ blobEnd' = IF CloseOutcome(blobAudio) = "break"
                           THEN "normal" ELSE "NoAudioReceived"
             /\ UNCHANGED <<blobAudio, blobYielded>>
        ELSE IF message.item.type = "error"
        THEN /\ blobEnd' = message.item.kind
             /\ UNCHANGED <<blobAudio, blobYielded>>
        ELSE /\ blobAudio' = (blobAudio \/ message.item.type = "audio")
             /\ blobYielded' = Append(blobYielded, message)
             /\ UNCHANGED blobEnd
  /\ UNCHANGED <<blobState, blobWs, blobRecv, blobPending>>
  /\ UNCHANGED notBlob

BlobNext ==
  \/ \E f \in Frames : BlobMessage(f)
  \/ \E n \in 1..MaxFrames : BlobConverted(n)
  \/ BlobClose
  \/ BlobLoop

\* ===================================================================
\* Two Communicate instances in one process
\* ===================================================================
notDuo == <<engineVars, splitVars, drmVars, subVars, wireVars, ttsVars, vmVars,
  textVars, listVars, cmpVars, blobVars>>

Instances == {1, 2}

\* (mutant) the state object is shared by the instances of the class
stateOf_static(i) == 1

\* this.state of instance i
stateOf(i) == i

\* lines 131-140 of _stream(): an instance that has a proxy imports
\* https-proxy-agent when the module variable is unset; the import may fail
importAgent(agent, proxy, imported) == agent \/ (proxy /\ imported)

NoSession == [seg |-> 0, ws |-> "none", queue |-> <<>>, audio |-> FALSE,
              tokenSkew |-> 0]

\* _stream() up to the loop: the token is made, the WebSocket is open
NewSession(seg, skew) ==
  [seg |-> seg, ws |-> "open", queue |-> <<>>, audio |-> FALSE,
   tokenSkew |-> skew]

FrameEvent(f) == [kind |-> "message", f |-> f]
CloseEvent == [kind |-> "close", f |-> TextFrame("", <<>>)]

DuoIdle ==
  /\ duoState = [i \in Instances |->
                   [streamWasCalled |-> FALSE, offsetCompensation |-> 0,
                    lastDurationOffset |-> 0, proxy |-> FALSE]]
  /\ duoSess = [i \in Instances |-> NoSession]
  /\ duoOut = [i \in Instances |-> [yielded |-> <<>>, end |-> "off"]]
  /\ duoFed = [i \in Instances |-> <<>>]
  /\ duoSkew = 0
  /\ duoAgent = FALSE

\* both instances are constructed, both with or both without the proxy option
DuoInit ==
  /\ \E p \in BOOLEAN :
       duoState = [i \in Instances |->
                     [streamWasCalled |-> FALSE, offsetCompensation |-> 0,
                      lastDurationOffset |-> 0, proxy |-> p]]
  /\ duoSess = [i \in Instances |-> NoSession]
  /\ duoOut = [i \in Instances |-> [yielded |-> <<>>, end |-> "none"]]
  /\ duoFed = [i \in Instances |-> <<>>]
  /\ duoSkew = 0
  /\ duoAgent = FALSE

\* the frames of a synthesis that goes well, every word at raw offset 0
DuoFrameKinds ==
  {TextFrame("audio.metadata", <<MetaItem("WordBoundary", 0, 1)>>),
   TextFrame("turn.end", <<>>),
   BinaryFrame(FALSE, FALSE, "audio", "audio/mpeg", 1)}

\* the frames delivered to both instances so far
DuoFrames ==
  Len(SelectSeq(duoFed[1], LAMBDA e : e.kind = "message"))
    + Len(SelectSeq(duoFed[2], LAMBDA e : e.kind = "message"))

\* the first pull of stream() of instance i: the one-shot guard, the first
\* segment, and _stream() up to the loop
DuoStart(i) ==
  /\ duoOut[i].end = "none" /\ duoSess[i].seg = 0
  /\ ~GuardThrows(duoState[stateOf(i)].streamWasCalled)
  /\ duoState' = [duoState EXCEPT ![stateOf(i)].streamWasCalled = TRUE]
  /\ \E imported \in BOOLEAN :
       duoAgent' = importAgent(duoAgent, duoState[i].proxy, imported)
  /\ duoSess' = [duoSess EXCEPT ![i] = NewSession(1, duoSkew)]
  /\ UNCHANGED <<duoOut, duoFed, duoSkew>>
  /\ UNCHANGED notDuo

\* the transport of instance i delivers frame f to its 'message' listener
DuoMessage(i, f) ==
  /\ duoSess[i].ws \in {"open", "closing"} /\ DuoFrames < MaxDuoFrames
  /\ f \in DuoFrameKinds
  /\ LET st == duoState[stateOf(i)]
         r == handleMessage(f, "node", st.offsetCompensation,
                            st.lastDurationOffset) IN
     /\ duoState' = [duoState EXCEPT
                       ![stateOf(i)].offsetCompensation = r.comp,
                       ![stateOf(i)].lastDurationOffset = r.ldo]
     /\ duoSess' = [duoSess EXCEPT
                      ![i].queue = @ \o r.push,
                      ![i].ws = IF r.close THEN "closing" ELSE @]
  /\ duoFed' = [duoFed EXCEPT ![i] = Append(@, FrameEvent(f))]
  /\ UNCHANGED <<duoOut, duoSkew, duoAgent>>
  /\ UNCHANGED notDuo

\* the close event of the transport of instance i
DuoClose(i) ==
  /\ duoSess[i].ws \in {"open", "closing"}
  /\ duoSess' = [duoSess EXCEPT ![i].ws = "closed",
                                ![i].queue = Append(@, CloseItem)]
  /\ duoFed' = [duoFed EXCEPT ![i] = Append(@, CloseEvent)]
  /\ UNCHANGED <<duoState, duoOut, duoSkew, duoAgent>>
  /\ UNCHANGED notDuo

\* one iteration of the consumer loop of instance i on a non-empty queue; on
\* a normal end of the session stream() goes on to the next segment
DuoLoop(i) ==
  /\ duoOut[i].end = "none" /\ duoSess[i].queue # <<>>
  /\ LET message == shift(duoSess[i].queue).message
         rest == shift(duoSess[i].queue).rest IN
     IF message.type = "close"
     THEN IF CloseOutcome(duoSess[i].audio) = "break"
          THEN IF duoSess[i].seg < MaxSegs
               THEN /\ duoSess' = [duoSess EXCEPT ![i] =
                                     NewSession(duoSess[i].seg + 1, duoSkew)]
                    /\ \E imported \in BOOLEAN :
                         duoAgent' = importAgent(duoAgent, duoState[i].proxy,
                                                 imported)
                    /\ UNCHANGED <<duoOut, duoSkew>>
               ELSE /\ duoOut' = [duoOut EXCEPT ![i].end = "normal"]
                    /\ duoSess' = [duoSess EXCEPT ![i].queue = rest]
                    /\ UNCHANGED <<duoAgent, duoSkew>>
          ELSE /\ duoOut' = [duoOut EXCEPT ![i].end = "NoAudioReceived"]
               /\ duoSess' = [duoSess EXCEPT ![i].queue = rest]
               /\ UNCHANGED <<duoAgent, duoSkew>>
     ELSE IF message.type = "error"
     THEN LET r == StreamCatch("node", FALSE, Thrown(message.kind), duoSkew) IN
          /\ duoSkew' = r.skew
          /\ IF r.act = "retry"
             THEN /\ duoSess' = [duoSess EXCEPT ![i] =
                                   NewSession(duoSess[i].seg, r.skew)]
                  /\ UNCHANGED duoOut
             ELSE /\ duoOut' = [duoOut EXCEPT ![i].end = r.err.kind]
                  /\ duoSess' = [duoSess EXCEPT ![i].queue = rest]
          /\ UNCHANGED duoAgent
     ELSE /\ duoOut' = [duoOut EXCEPT ![i].yielded = Append(@, message)]
          /\ duoSess' = [duoSess EXCEPT
                           ![i].queue = rest,
                           ![i].audio = @ \/ message.type = "audio"]
          /\ UNCHANGED <<duoAgent, duoSkew>>
  /\ UNCHANGED <<duoState, duoFed>>
  /\ UNCHANGED notDuo

\* DRM.adjClockSkewSeconds called in the process (by a listVoices call that
\* was refused once)
DuoAdjust ==
  /\ duoSkew = 0
  /\ duoSkew' = adjClockSkewSeconds(Num(duoSkew), Num(1)).v
  /\ UNCHANGED <<duoState, duoSess, duoOut, duoFed, duoAgent>>
  /\ UNCHANGED notDuo

DuoNext ==
  \/ \E i \in Instances : DuoStart(i)
  \/ \E i \in Instances, f \in DuoFrameKinds : DuoMessage(i, f)
  \/ \E i \in Instances : DuoClose(i)
  \/ \E i \in Instances : DuoLoop(i)
  \/ DuoAdjust

vars ==
  <<engineVars, splitVars, drmVars, subVars, wireVars, ttsVars, vmVars,
    textVars, listVars,
  cmpVars,
  blobVars,
  duoVars>>

EngineIdle ==
  /\ EngineInit /\ variant = "node" /\ ~connectionTimeout /\ calls = 1
  /\ frameKinds = "all" /\ ~blankText

Init == EngineInit /\ SplitIdle /\ DrmIdle /\ SubIdle /\ WireIdle /\ TtsIdle
    /\ VmIdle /\ TextIdle /\ ListIdle /\ CmpIdle /\ BlobIdle /\ DuoIdle

Next == EngineNext

\* the engine: stream() calls, pulls, and the transports' events
Spec == Init /\ [][Next]_vars

\* the segmenter run on every bounded text and byte length
InitSplit == EngineIdle /\ SplitInit /\ DrmIdle /\ SubIdle /\ WireIdle /\ TtsIdle
    /\ VmIdle /\ TextIdle /\ ListIdle /\ CmpIdle /\ BlobIdle /\ DuoIdle

SpecSplit == InitSplit /\ [][SplitNext]_vars

\* the browser's segmenter run on every bounded text and byte length
InitBrowserSplit ==
  EngineIdle /\ SplitInit /\ DrmIdle /\ SubIdle /\ WireIdle /\ TtsIdle
    /\ VmIdle /\ TextIdle /\ ListIdle /\ CmpIdle /\ BlobIdle /\ DuoIdle

SpecBrowserSplit == InitBrowserSplit /\ [][BrowserSplitNext]_vars

\* the DRM operations called in any order while the clock advances
InitDrm == EngineIdle /\ SplitIdle /\ DrmInit /\ SubIdle /\ WireIdle /\ TtsIdle
    /\ VmIdle /\ TextIdle /\ ListIdle /\ CmpIdle /\ BlobIdle /\ DuoIdle

SpecDrm == InitDrm /\ [][DrmNext]_vars

\* feed and mergeCues called in any order on one SubMaker
InitSub == EngineIdle /\ SplitIdle /\ DrmIdle /\ SubInit /\ WireIdle /\ TtsIdle
    /\ VmIdle /\ TextIdle /\ ListIdle /\ CmpIdle /\ BlobIdle /\ DuoIdle

SpecSub == InitSub /\ [][SubNext]_vars

\* the 'message' listener of every class on every bounded binary message
InitWire ==
  EngineIdle /\ SplitIdle /\ DrmIdle /\ SubIdle /\ WireInit /\ TtsIdle
    /\ VmIdle /\ TextIdle /\ ListIdle /\ CmpIdle /\ BlobIdle /\ DuoIdle

SpecWire == InitWire /\ [][WireNext]_vars

\* Communicate constructed with every bounded option set, then its sessions
InitTts ==
  EngineIdle /\ SplitIdle /\ DrmIdle /\ SubIdle /\ WireIdle /\ TtsInit
    /\ VmIdle /\ TextIdle /\ ListIdle /\ CmpIdle /\ BlobIdle /\ DuoIdle

SpecTts == InitTts /\ [][TtsNext]_vars

\* a VoicesManager made by create() or by its constructor, then find() calls
InitVm ==
  EngineIdle /\ SplitIdle /\ DrmIdle /\ SubIdle /\ WireIdle /\ TtsIdle
    /\ VmInit /\ TextIdle /\ ListIdle /\ CmpIdle /\ BlobIdle /\ DuoIdle

SpecVm == InitVm /\ [][VmNext]_vars

\* both text decoders run on every bounded text message
InitText ==
  EngineIdle /\ SplitIdle /\ DrmIdle /\ SubIdle /\ WireIdle /\ TtsIdle
    /\ VmIdle /\ TextInit /\ ListIdle /\ CmpIdle /\ BlobIdle /\ DuoIdle

SpecText == InitText /\ [][TextNext]_vars

\* one listVoices() call, its requests settled in every way
InitList ==
  EngineIdle /\ SplitIdle /\ DrmInit /\ SubIdle /\ WireIdle /\ TtsIdle
    /\ VmIdle /\ TextIdle /\ ListInit /\ CmpIdle /\ BlobIdle /\ DuoIdle

SpecList == InitList /\ [][ListNext]_vars

\* the classes side by side, fed the same frames, errors and close events
InitCmp ==
  EngineIdle /\ SplitIdle /\ DrmIdle /\ SubIdle /\ WireIdle /\ TtsIdle
    /\ VmIdle /\ TextIdle /\ ListIdle /\ CmpInit /\ BlobIdle /\ DuoIdle

SpecCmp == InitCmp /\ [][CmpNext]_vars

\* one session of BrowserCommunicate whose binary frames arrive as Blobs
InitBlob ==
  EngineIdle /\ SplitIdle /\ DrmIdle /\ SubIdle /\ WireIdle /\ TtsIdle
    /\ VmIdle /\ TextIdle /\ ListIdle /\ CmpIdle /\ BlobInit /\ DuoIdle

SpecBlob == InitBlob /\ [][BlobNext]_vars

\* two Communicate instances whose sessions interleave
InitDuo ==
  EngineIdle /\ SplitIdle /\ DrmIdle /\ SubIdle /\ WireIdle /\ TtsIdle
    /\ VmIdle /\ TextIdle /\ ListIdle /\ CmpIdle /\ BlobIdle /\ DuoInit

SpecDuo == InitDuo /\ [][DuoNext]_vars

\* the engine with a consumer that keeps pulling, generators that run when
\* they can, timers that fire, and transports that open or fail and, once
\* open or failed, deliver their close event
Fairness ==
  /\ \A g \in Gens : WF_vars(Pull(g))
  /\ WF_vars(NextText)
  /\ WF_vars(Rejected)
  /\ WF_vars(Loop)
  /\ \A s \in Sessions : WF_vars(Open(s))
  /\ \A s \in Sessions : WF_vars(Close(s))
  /\ \A s \in Sessions : WF_vars(Timer1Fire(s))
  /\ \A s \in Sessions : WF_vars(Timer2Fire(s))

SpecLive == Init /\ [][Next]_vars /\ Fairness

\* ===================================================================
\* Properties of the engine
\* ===================================================================
Started == 1..nSess

IsWB(e) == e.chunk.type = "WordBoundary"

WBEnd(e) == e.chunk.offset + e.chunk.duration

\* the session received turn.end and ended normally
EndedThroughTurnEnd(s) ==
  /\ sessEnd[s] = "normal"
  /\ \E i \in 1..Len(recvLog[s]) : recvLog[s][i] = TurnEndMark

\* turn.end is the last timing frame of the session and the WordBoundary
\* frames before it arrived in non-decreasing order of offset + duration
InOrder(s) ==
  LET log == SelectSeq(recvLog[s], LAMBDA x : x >= TurnEndMark) IN
  /\ Len(log) > 0
  /\ log[Len(log)] = TurnEndMark
  /\ \A i \in 1..(Len(log) - 1) : log[i] # TurnEndMark
  /\ \A i, j \in 1..(Len(log) - 1) : i < j => log[i] <= log[j]

ConsecutiveWB(i, j) ==
  /\ IsWB(yielded[i]) /\ IsWB(yielded[j])
  /\ sessSeg[yielded[j].sess] = sessSeg[yielded[i].sess] + 1
  /\ EndedThroughTurnEnd(yielded[i].sess)

C2_SecondCallFails ==
  \A g \in Gens :
    (g >= 2 /\ gen[g] \notin {"none", "suspendedStart"})
      => (gen[g] = "failed" /\ genErr[g] = "Error")

\* the session received only text frames the listener accepts without
\* queuing an error, and no audio
OnlyGoodText(s) ==
  \A i \in 1..Len(recvLog[s]) : recvLog[s][i] \notin {AudioMark, BadFrameMark}

\* the transport closed without an error event or a timeout
CleanClose(s) ==
  /\ websocket[s] = "closed" /\ wsCause[s] = "none"
  /\ timer1[s] # "fired" /\ rejectReason[s] = "none"

Stuck(s) ==
  /\ s = nSess /\ owner # 0 /\ gen[owner] = "running" /\ pc = "awaitOpen"
  /\ openPromise[s] = "pending" /\ websocket[s] = "closed"

\* C4 as stated: once the session of a segment has failed because the
\* handshake was rejected with 403 and a parseable Date header, Communicate
\* has started one more session for the same segment.
C4_RetryOn403 ==
  \A s \in Started :
    (variant = "node" /\ wsCause[s] = "http403date"
       /\ (Stuck(s) \/ sessEnd[s] # "none"))
      => (s < nSess /\ sessSeg[s + 1] = sessSeg[s])

SessionsOf(seg) == {s \in Started : sessSeg[s] = seg}

StreamFailed == owner # 0 /\ gen[owner] = "failed"

YieldedOf(s) == SelectSeq(yielded, LAMBDA e : e.sess = s)

PushedOf(s) == SelectSeq(pushed, LAMBDA e : e.sess = s)

IsPrefix(a, b) == Len(a) <= Len(b) /\ SubSeq(b, 1, Len(a)) = a

\* C6: when a session ends with an error (or the segmenter throws),
\* stream() throws that same error, no connection is opened afterwards, and
\* what was yielded before is the queued events, unchanged and in order.
C6_AbortOnError ==
  /\ [](StreamFailed =>
          IF textsState = "threw"
          THEN genErr[owner] = "ValueError"
          ELSE genErr[owner] = sessEnd[nSess])
  /\ [](\A s \in Started : IsPrefix(YieldedOf(s), PushedOf(s)))
  /\ [](\A i, j \in 1..Len(yielded) : i < j => yielded[i].sess <= yielded[j].sess)
  /\ [][StreamFailed => (nSess' = nSess /\ yielded' = yielded
                          /\ \A s \in Sessions :
                               websocket'[s] = "connecting"
                                 => websocket[s] = "connecting")]_vars

C6_Witness ==
  /\ StreamFailed /\ partialText < MaxSegs /\ Len(yielded) >= 1
  /\ genErr[owner] \in {"UnknownResponse", "UnexpectedResponse"}

NoBadFrame(s) == \A i \in 1..Len(recvLog[s]) : recvLog[s][i] # BadFrameMark

\* C7 as stated: a transport error in a session never leaves the consumer's
\* pull pending forever, and the session ends with WebSocketError and with
\* nothing else.
C7_TransportErrorSurfaces ==
  \A s \in Started :
    (wsCause[s] # "none" /\ NoBadFrame(s) /\ websocket[s] = "closed")
      => (~Stuck(s) /\ sessEnd[s] \in {"none", "WebSocketError"})

QueuedErrors(s) == SelectSeq(messageQueue[s], LAMBDA m : m.type = "error")

\* C8 as stated: when the connection timeout expires before the transport
\* is open, the session is aborted, stream() throws WebSocketError, no second
\* error stays queued and no handshake message is sent.
C8_ConnectionTimeout ==
  \A s \in Started :
    (timer1[s] = "fired" /\ websocket[s] = "closed")
      => /\ ~Stuck(s)
         /\ sent[s] = <<>>
         /\ (sessEnd[s] # "none"
               => (sessEnd[s] = "WebSocketError" /\ QueuedErrors(s) = <<>>))

\* C9: at most one WebSocket of the instance is connecting or open; a new
\* connection is created only while the consumer is pulling and after the
\* previous session consumed its close marker.
C9_SequentialSessions ==
  /\ [](Cardinality({s \in Sessions : websocket[s] \in {"connecting", "open"}}) <= 1)
  /\ [][nSess' # nSess =>
          /\ nSess' = nSess + 1
          /\ owner # 0 /\ gen[owner] = "running"
          /\ (nSess = 0 \/ (websocket[nSess] = "closed" /\ sessEnd[nSess] = "normal"))]_vars

C9_Witness ==
  /\ nSess = 2 /\ websocket[1] = "closed" /\ websocket[2] = "open"
  /\ sessSeg[2] = sessSeg[1] + 1


\* ---------------------------------------------------------------- C10
\* the input is XML-escaped: every '&' opens a terminated entity reference
IsEscaped(buf) ==
  \A i \in 1..Len(buf) :
    buf[i] = "&" => (i + 2 <= Len(buf) /\ buf[i + 1] = "a" /\ buf[i + 2] = ";")

\* every '&' of the segment is followed by a ';' inside the segment
EntitiesTerminated(seg) ==
  \A i \in 1..Len(seg) : seg[i] = "&" => (\E j \in (i + 1)..Len(seg) : seg[j] = ";")

\* no code point of the input was cut: decoding finds no ill-formed sequence
WholeCodePoints(seg) ==
  \A i \in 1..Len(toString(seg)) : toString(seg)[i] # ReplacementChar

SafeSegment(seg) ==
  /\ seg # <<>>
  /\ trim(toString(seg)) = toString(seg)
  /\ Len(seg) <= byteLength
  /\ WholeCodePoints(seg)
  /\ EntitiesTerminated(seg)

\* C10: segmenter safety. For every XML-escaped input and every byteLength > 0
\* for which no ValueError is raised, each yielded segment is non-empty,
\* trimmed, at most byteLength bytes long, cut at a UTF-8 code-point boundary
\* and contains no '&' that is not followed by a ';' in the same segment.
C10_SegmenterSafety ==
  (IsEscaped(text) /\ byteLength > 0 /\ splitPc # "ValueError")
    => \A i \in 1..Len(segments) : SafeSegment(segments[i])


\* ---------------------------------------------------------------- C11
\* the bytes of buf that are not whitespace, in order
RECURSIVE NonWhitespace(_)
NonWhitespace(buf) ==
  IF buf = <<>> THEN <<>>
  ELSE IF <<Head(buf)>> \in Whitespace THEN NonWhitespace(Tail(buf))
  ELSE <<Head(buf)>> \o NonWhitespace(Tail(buf))

RECURSIVE Concat(_)
Concat(segs) == IF segs = <<>> THEN <<>> ELSE Head(segs) \o Concat(Tail(segs))

\* C11: segmenter losslessness. When the generator has finished without a
\* ValueError, the yielded segments concatenated in order, whitespace
\* ignored, are the input with whitespace ignored.
C11_SegmenterLossless ==
  splitPc = "done" => NonWhitespace(Concat(segments)) = NonWhitespace(text)


\* ---------------------------------------------------------------- C12
\* the while loop of _adjustSplitPointForXmlEntity repeats its own state:
\* the iteration is taken and changes neither splitAt nor ampersandIndex
AdjustSpins ==
  /\ splitPc = "adjust" /\ ampersandIndex # -1
  /\ LET semicolonIndex == indexOf(buffer, ";", ampersandIndex) IN
     ~(semicolonIndex # -1 /\ semicolonIndex < splitAt)
  /\ splitAt = ampersandIndex
  /\ lastIndexOf(buffer, "&", ampersandIndex - 1) = ampersandIndex

\* k is a split point within the limit, on a code-point boundary and outside
\* an unterminated entity
GoodSplitPoint(buf, limit, k) ==
  /\ k >= 1 /\ k <= limit /\ k <= Len(buf)
  /\ WholeCodePoints(subarray(buf, 0, k))
  /\ EntitiesTerminated(subarray(buf, 0, k))

ValueErrorJustified ==
  \/ byteLength <= 0
  \/ ~\E k \in 1..Len(buffer) : GoodSplitPoint(buffer, byteLength, k)

\* C12: the segmenter terminates and fails only when it must. The entity
\* adjustment never repeats its own state, every iteration that yields
\* shortens the buffer, and ValueError is raised only when byteLength <= 0 or
\* no split point > 0 within the first byteLength bytes is on a code-point
\* boundary and outside an unterminated entity (in particular not because
\* the only newline or space within the limit is at byte 0).
C12_SegmenterTerminates ==
  /\ [](~AdjustSpins)
  /\ [](splitPc = "ValueError" => ValueErrorJustified)
  /\ [][buffer' # buffer => Len(buffer') < Len(buffer)]_vars


\* ---------------------------------------------------------------- C13
\* the segmenter on a blank input: it never yields a segment, and when the
\* input fits the limit it ends without an error
BlankTextEndsEmpty ==
  NonWhitespace(text) = <<>>
    => /\ segments = <<>>
       /\ (byteLength > 0 /\ Len(text) <= byteLength
             /\ splitPc \in {"done", "ValueError"})
            => splitPc = "done"

\* C13: empty text is invalid caller input. A generator of stream() that has
\* ended on a blank text has thrown ValueError and no connection was opened,
\* and stream() never completes normally with zero events.
C13_EmptyTextIsError ==
  /\ \A g \in Gens : gen[g] = "done" => Len(yielded) >= 1
  /\ (blankText /\ owner # 0 /\ gen[owner] \in {"done", "failed"})
       => (gen[owner] = "failed" /\ genErr[owner] = "ValueError" /\ nSess = 0)

\* ===================================================================
\* Properties of the DRM operations
\* ===================================================================
\* the response gives no server time: no response or headers, no Date
\* header, or a Date header that is not a date
NoServerTime(e) == ~e.response \/ ~e.headers \/ e.date.kind # "valid"

\* C14: handleClientResponseError raises SkewAdjustmentError and leaves the
\* clock skew as it was whenever the response has no headers, no Date header
\* or a Date header that is not a date; the skew changes only when the
\* header parses to a finite time.
C14_BadDateRaises ==
  drmLast.op = "handle" =>
    /\ NoServerTime(drmLast.e)
         => /\ drmLast.threw = "SkewAdjustmentError"
            /\ drmClockSkewSeconds = drmLast.before
    /\ drmClockSkewSeconds # drmLast.before => drmLast.e.date.kind = "valid"

\* the last operation was a handleClientResponseError that returned, for a
\* response whose Date header is the server time S
HandledServerTime ==
  /\ drmLast.op = "handle"
  /\ drmLast.threw = "none"
  /\ drmLast.e.date.kind = "valid"

\* C15: the clock skew starts at 0 and changes only by an addition made by
\* adjClockSkewSeconds; after handleClientResponseError returned for a
\* response with server time S at wall-clock time W, getUnixTimestamp() at W
\* is S whatever the skew was before, and handling the same response again
\* at the same wall-clock time leaves the skew as it is.
C15_SkewCorrection ==
  /\ [](nDrmCalls = 0 => drmClockSkewSeconds = Num(0))
  /\ [][drmClockSkewSeconds' # drmClockSkewSeconds
          => drmLast'.op \in {"handle", "adjust"}]_vars
  /\ [](HandledServerTime
          => getUnixTimestamp(drmLast.at, drmClockSkewSeconds)
               = Num(drmLast.e.date.t))
  /\ [][(HandledServerTime /\ drmLast'.op = "handle"
           /\ drmLast'.e = drmLast.e /\ drmLast'.at = drmLast.at)
          => drmClockSkewSeconds' = drmClockSkewSeconds]_vars

\* floor(t / 300), the bucket of an adjusted time (the same for t + WIN_EPOCH
\* up to the constant WIN_EPOCH / 300)
BucketOf(t) == IF t.nan THEN NaN ELSE Num(t.v \div BucketSeconds)

\* C16: what generateSecMsGec hashes depends only on the 300-second bucket of
\* the adjusted time: two calls in the same bucket hash the same string, two
\* calls in different buckets hash different strings, and the call leaves
\* the clock skew as it is.
C16_TokenDeterminism ==
  /\ [](\A i, j \in DOMAIN tokens :
          (BucketOf(tokens[i].at) = BucketOf(tokens[j].at))
            <=> (tokens[i].str = tokens[j].str))
  /\ [][Len(tokens') > Len(tokens)
          => drmClockSkewSeconds' = drmClockSkewSeconds]_vars

\* two calls at different adjusted times of one bucket, and two calls in
\* different buckets
C16_Witness ==
  /\ \E i, j \in DOMAIN tokens :
       /\ ~tokens[i].at.nan /\ ~tokens[j].at.nan
       /\ tokens[i].at # tokens[j].at
       /\ BucketOf(tokens[i].at) = BucketOf(tokens[j].at)
  /\ \E i, j \in DOMAIN tokens :
       /\ ~tokens[i].at.nan /\ ~tokens[j].at.nan
       /\ BucketOf(tokens[i].at) # BucketOf(tokens[j].at)

\* ===================================================================
\* Properties of SubMaker
\* ===================================================================
\* the texts of the feed calls that returned, in order
FedTexts ==
  [i \in 1..Len(SelectSeq(subLog, LAMBDA c : c.op = "feed")) |->
     SelectSeq(subLog, LAMBDA c : c.op = "feed")[i].msg.text]

\* the calls so far are feeds of N >= 1 one-word events, then mergeCues(3)
OneWordFeedsThenMerge ==
  /\ Len(subLog) >= 2
  /\ nSubCalls = Len(subLog)
  /\ subLog[Len(subLog)] = SubCall("mergeCues", NoChunk, 3)
  /\ \A i \in 1..(Len(subLog) - 1) :
       subLog[i].op = "feed" /\ Len(subLog[i].msg.text) = 1

\* C17: N one-word WordBoundary events fed and then mergeCues(3) give
\* ceil(N/3) cues; each cue but the last holds 3 words, the words are in
\* feed order, and a cue starts where its first event starts and ends where
\* its last event ends.
C17_MergeByThree ==
  OneWordFeedsThenMerge =>
    LET N == Len(subLog) - 1 IN
    /\ Len(cues) = (N + 2) \div 3
    /\ \A i \in 1..Len(cues) :
         LET first == 3 * (i - 1) + 1
             last == Min(3 * i, N)
         IN /\ i < Len(cues) => Len(cues[i].content) = 3
            /\ cues[i].content = [k \in 1..(last - first + 1) |->
                                    subLog[first + k - 1].msg.text[1]]
            /\ cues[i].start = Seconds(subLog[first].msg.offset)
            /\ cues[i].end = Seconds(subLog[last].msg.offset
                                       + subLog[last].msg.duration)

\* seven events merged into cues of 3, 3 and 1 words
C17_Witness ==
  OneWordFeedsThenMerge /\ Len(subLog) = 8 /\ Len(cues) = 3

\* C18: after any feed and mergeCues calls that returned, the cue indices
\* are 1..n in list order, getSrt gives one block per cue in that order with
\* the cue's index and content, and the words of the cues are the words fed,
\* each once and in feed order.
C18_CueIndices ==
  /\ \A i \in 1..Len(cues) : cues[i].index = i
  /\ Len(getSrt(cues)) = Len(cues)
  /\ \A i \in 1..Len(cues) :
       /\ getSrt(cues)[i].index = Digits(i)
       /\ getSrt(cues)[i].content = cues[i].content
  /\ Concat([i \in 1..Len(cues) |-> cues[i].content]) = Concat(FedTexts)

\* feeds and a merge that joined cues, with a feed after it
C18_Witness ==
  /\ Len(cues) >= 2
  /\ Len(cues) < Len(FedTexts)
  /\ subLast.op = "feed" /\ subLast.threw = "none"
  /\ \E i \in 1..Len(subLog) : subLog[i].op = "mergeCues"

\* the number a digit string denotes
RECURSIVE Value(_)
Value(d) == IF d = <<>> THEN 0 ELSE 10 * Value(SubSeq(d, 1, Len(d) - 1)) + d[Len(d)]

\* the time in 100-ns ticks that a time in seconds stands for
TicksOf(seconds) == seconds.whole * TicksPerSecond + seconds.frac

\* a rendering HH:MM:SS,mmm of t with three millisecond digits, seconds and
\* minutes below 60, that denotes t rounded to the millisecond
WellFormedTime(t) ==
  LET f == formatTime(t) IN
  /\ Len(f.ms) = 3 /\ Len(f.s) = 2 /\ Len(f.m) = 2
  /\ Value(f.ms) <= 999 /\ Value(f.s) <= 59 /\ Value(f.m) <= 59
  /\ ((Value(f.h) * 60 + Value(f.m)) * 60 + Value(f.s)) * 1000 + Value(f.ms)
       = (TicksOf(t) + TicksPerMs \div 2) \div TicksPerMs

\* C19: for every cue time that comes from non-negative integer ticks,
\* formatTime renders HH:MM:SS,mmm with a millisecond field of three digits
\* in 000..999 and a seconds field in 00..59 that denote the cue time
\* rounded to the millisecond.
C19_TimestampFormat ==
  \A i \in 1..Len(cues) :
    WellFormedTime(cues[i].start) /\ WellFormedTime(cues[i].end)

\* the call is one SubMaker must reject
InvalidFeed(msg) ==
  msg.type # "WordBoundary" \/ msg.has # {"offset", "duration", "text"}

\* C20: feed with a chunk that is not a WordBoundary carrying offset,
\* duration and text, and mergeCues with words <= 0, raise ValueError and
\* leave the cue list as it was before the call.
C20_RejectsInvalid ==
  [][/\ \A msg \in BoundaryChunks \cup OtherChunks :
          (SubFeed(msg) /\ InvalidFeed(msg))
            => (subLast'.threw = "ValueError" /\ cues' = cues)
     /\ \A words \in -1..0 :
          SubMerge(words) => (subLast'.threw = "ValueError" /\ cues' = cues)]_vars

\* a call was rejected on a SubMaker that holds cues
C20_Witness ==
  /\ subLast.threw = "ValueError"
  /\ subLast.before # <<>>
  /\ cues = subLast.before

\* ===================================================================
\* Properties of the message handler
\* ===================================================================
\* the step delivered a frame to session s and the listener took it as turn.end
HandledTurnEnd(s) == recvLog'[s] = Append(recvLog[s], TurnEndMark)

\* the WordBoundary chunks the step queued
NewChunks == SubSeq(pushed', Len(pushed) + 1, Len(pushed'))

\* the first item of a Metadata array that is not a SessionEnd item
RECURSIVE FirstItem(_)
FirstItem(meta) ==
  IF meta = <<>> THEN MetaItem("none", 0, 0)
  ELSE IF Head(meta).Type = "SessionEnd" THEN FirstItem(Tail(meta))
  ELSE Head(meta)

TurnEndsOf(s) == SelectSeq(recvLog[s], LAMBDA m : m = TurnEndMark)

\* C24: offsetCompensation starts at 0 and is written only by the turn.end
\* handler, at most once per session, where it becomes lastDurationOffset
\* with nothing added; lastDurationOffset is written only when a WordBoundary
\* is accepted and becomes its compensated offset plus its duration; a
\* yielded WordBoundary has the raw offset plus the offsetCompensation of the
\* moment its frame was received, and the raw duration.
C24_OffsetCompensation ==
  /\ [](nSess = 0 => offsetCompensation = 0)
  /\ [][offsetCompensation' # offsetCompensation
          => \E s \in Started : HandledTurnEnd(s)]_vars
  /\ [][\A s \in Started :
          HandledTurnEnd(s) => offsetCompensation' = lastDurationOffset]_vars
  /\ [](\A s \in Started : Len(TurnEndsOf(s)) <= 1)
  /\ [][lastDurationOffset' # lastDurationOffset
          => /\ Len(NewChunks) = 1 /\ IsWB(NewChunks[1])]_vars
  /\ [][\A i \in 1..Len(NewChunks) :
          IsWB(NewChunks[i]) => lastDurationOffset' = WBEnd(NewChunks[i])]_vars
  /\ [][\A s \in Started, f \in TextFrames :
          (Message(s, f) /\ Len(NewChunks) = 1 /\ IsWB(NewChunks[1]))
            => NewChunks[1].chunk =
                 WBChunk(FirstItem(f.meta).Offset + offsetCompensation,
                         FirstItem(f.meta).Duration)]_vars
  /\ [](\A s \in Started : IsPrefix(YieldedOf(s), PushedOf(s)))

\* the WordBoundary items of a Metadata array, in array order
WordItems(meta) == SelectSeq(meta, LAMBDA m : m.Type = "WordBoundary")

\* every item of the Metadata array is a WordBoundary or a SessionEnd item
KnownItems(meta) ==
  \A i \in 1..Len(meta) : meta[i].Type \in {"WordBoundary", "SessionEnd"}

\* the listener handles the text frames of this variant as text
TextHandled == TextAsString(variant)

\* C25: an audio.metadata frame whose Metadata array holds k WordBoundary
\* items queues exactly k WordBoundary events, in array order, and
\* lastDurationOffset afterwards is the end of the last of them.
C25_EveryWordBoundary ==
  [][\A s \in Started, f \in TextFrames :
       (Message(s, f) /\ TextHandled /\ f.path = "audio.metadata"
          /\ KnownItems(f.meta))
         => LET items == WordItems(f.meta)
                events == SelectSeq(NewChunks, IsWB)
            IN /\ Len(events) = Len(items)
               /\ \A i \in 1..Len(events) :
                    events[i].chunk =
                      WBChunk(items[i].Offset + offsetCompensation,
                              items[i].Duration)
               /\ items # <<>>
                    => lastDurationOffset' = WBEnd(events[Len(events)])]_vars

\* what the listener of session s queued in this step
NewQueued(s) ==
  SubSeq(messageQueue'[s], Len(messageQueue[s]) + 1, Len(messageQueue'[s]))

\* C26: an audio.metadata frame that holds only SessionEnd items queues no
\* event and no error; a frame with an item of a type other than
\* WordBoundary and SessionEnd queues UnknownResponse.
C26_MetadataItemTypes ==
  [][\A s \in Started, f \in TextFrames :
       (Message(s, f) /\ TextHandled /\ f.path = "audio.metadata"
          /\ f.meta # <<>>)
         => /\ (\A i \in 1..Len(f.meta) : f.meta[i].Type = "SessionEnd")
                 => NewQueued(s) = <<>>
            /\ ~KnownItems(f.meta)
                 => NewQueued(s) = <<Err("UnknownResponse")>>]_vars

\* the chunks session s received before the first frame its listener
\* answered with an error
RECURSIVE GoodBefore(_)
GoodBefore(log) ==
  IF log = <<>> \/ Head(log) = BadFrameMark THEN 0
  ELSE (IF Head(log) = TurnEndMark THEN 0 ELSE 1) + GoodBefore(Tail(log))

\* C27: a text frame with Path response or turn.start changes no state and
\* queues nothing; a text frame with any Path other than audio.metadata,
\* turn.end, response and turn.start, or with no Path, queues
\* UnknownResponse, and a session that ends with UnknownResponse has yielded
\* every event received before the frame.
C27_TextFrameClassification ==
  /\ [][\A s \in Started, f \in TextFrames :
          Message(s, f)
            => /\ f.path \in {"response", "turn.start"}
                    => /\ NewQueued(s) = <<>>
                       /\ UNCHANGED <<offsetCompensation, lastDurationOffset,
                                      websocket, recvLog, pushed>>
               /\ f.path \in {"other", NoHeader}
                    => NewQueued(s) = <<Err("UnknownResponse")>>]_vars
  /\ [](\A s \in Started :
          sessEnd[s] = "UnknownResponse"
            => Len(YieldedOf(s)) = GoodBefore(recvLog[s]))

\* what the binary branch is to queue for a frame
BinaryVerdict(f) ==
  IF ~f.short /\ ~f.hdrTooLong /\ f.path = "audio"
  THEN IF f.ctype = "audio/mpeg" /\ f.dataLen > 0 THEN <<AudioChunk>>
       ELSE IF f.ctype # "audio/mpeg" /\ f.dataLen = 0 THEN <<>>
       ELSE <<Err("UnexpectedResponse")>>
  ELSE <<Err("UnexpectedResponse")>>

AudioYielded(s) ==
  \E i \in 1..Len(yielded) : yielded[i].sess = s /\ yielded[i].chunk.type = "audio"

C30_HandshakeOrder ==
  /\ [](\A s \in Sessions :
          /\ websocket[s] \in {"none", "connecting"} => sent[s] = <<>>
          /\ openPromise[s] = "resolved"
               => sent[s] = <<ConfigMessage, SsmlMessage(sessSeg[s])>>
          /\ sent[s] # <<>> => openPromise[s] = "resolved")
  /\ [][\A s \in Sessions : sent[s] # <<>> => sent'[s] = sent[s]]_vars

\* the second segment's session has sent its handshake and is closed
C30_Witness ==
  \E s \in Started :
    /\ sessSeg[s] = 2
    /\ sent[s] = <<ConfigMessage, SsmlMessage(2)>>
    /\ websocket[s] = "closed"

\* ===================================================================
\* Properties of the binary decoding
\* ===================================================================
Rejected29 == wireLast.push = <<Err("UnexpectedResponse")>>

\* the message holds the length bytes and the whole block they declare
CompleteBlock(m) == Len(m) >= 2 /\ Len(m) >= 2 + readUInt16BE(m)

\* C29: a binary message shorter than 2 bytes, or whose big-endian header
\* length L exceeds its length, is answered with UnexpectedResponse and no
\* audio; every other message the listener does not reject holds its whole
\* declared header block: the block is bytes [2, 2+L), the payload the rest.
C29_BinaryFrameDecoding ==
  wireLast.seen =>
    LET m == wireLast.message IN
    IF Len(m) < 2 THEN Rejected29
    ELSE LET L == readUInt16BE(m) IN
         IF L > Len(m) THEN Rejected29
         ELSE Rejected29
              \/ /\ CompleteBlock(m)
                 /\ wireLast.block = SubSeq(m, 3, 2 + L)
                 /\ wireLast.data = SubSeq(m, 3 + L, Len(m))

\* ===================================================================
\* Properties of TTSConfig
\* ===================================================================
Constructed == ttsError # "unconstructed"

\* the voice and prosody the Communicate constructor hands to TTSConfig
GivenVoice == VoiceOrDefault(ttsOptions.voice)

GivenRate == OrDefault(ttsOptions.rate, DefaultPercent)

GivenVolume == OrDefault(ttsOptions.volume, DefaultPercent)

GivenPitch == OrDefault(ttsOptions.pitch, DefaultPitch)

\* v is <lang>-<REGION>-<name>: two or more lower-case letters, two or more
\* upper-case letters, and a name of one or more characters before "Neural"
IsShortForm(v) ==
  \E d1, d2 \in DOMAIN v :
    /\ d1 >= 3 /\ d2 >= d1 + 3 /\ Len(v) >= d2 + 2
    /\ v[d1] = "-" /\ v[d2] = "-" /\ v[Len(v)] = "Neural"
    /\ \A k \in 1..(d1 - 1) : v[k] \in Lower
    /\ \A k \in (d1 + 1)..(d2 - 1) : v[k] \in Upper
    /\ \A k \in (d2 + 1)..Len(v) : v[k] \notin LineTerminator

\* v is the fixed beginning, then "(x,y)" with x and y non-empty, one line
IsFullForm(v) ==
  \E c \in DOMAIN v :
    /\ c >= 4 /\ Len(v) >= c + 2
    /\ v[1] = VoicePrefix /\ v[2] = "(" /\ v[c] = "," /\ v[Len(v)] = ")"
    /\ \A k \in 3..(Len(v) - 1) : v[k] \notin LineTerminator

\* s is a sign, one or more digits, and the unit
IsSigned(s, unit) ==
  /\ Len(s) >= 3 /\ s[1] \in {"+", "-"} /\ s[Len(s)] = unit
  /\ \A k \in 2..(Len(s) - 1) : s[k] \in Digit

ProsodyValid ==
  /\ IsSigned(GivenRate, "%") /\ IsSigned(GivenVolume, "%")
  /\ IsSigned(GivenPitch, "Hz")

\* C21: with valid prosody, a short-form voice is accepted and becomes a
\* full-form voice, a full-form voice is accepted unchanged, and a second
\* TTSConfig made from the voice of the first is accepted with that same voice.
C21_IdempotentNormalization ==
  /\ (Constructed /\ ProsodyValid /\ IsShortForm(GivenVoice))
       => ttsError = "none" /\ IsFullForm(ttsConfig.voice)
  /\ (Constructed /\ ProsodyValid /\ IsFullForm(GivenVoice))
       => ttsError = "none" /\ ttsConfig.voice = GivenVoice
  /\ ttsAgain.made
       => ttsAgain.error = "none" /\ ttsAgain.voice = ttsConfig.voice

\* a short-form voice with a hyphenated name was normalized, then again
C21_Witness ==
  /\ ttsAgain.made
  /\ IsShortForm(GivenVoice)
  /\ ttsConfig.voice =
       FullVoice(<<"e", "n">>, <<"U", "S", "-", "n">>, <<"Emma", "Neural">>)
  /\ ttsAgain.voice = ttsConfig.voice

ValidConfig(c) ==
  /\ IsFullForm(c.voice)
  /\ IsSigned(c.rate, "%") /\ IsSigned(c.volume, "%") /\ IsSigned(c.pitch, "Hz")

IsLanguageOf(language, locale) ==
  /\ IsPrefix(language, locale)
  /\ \A k \in DOMAIN language : language[k] # "-"
  /\ Len(language) = Len(locale) \/ locale[Len(language) + 1] = "-"

\* the voice has the value the filter asks for under every key it holds
Wanted(voice, filter) ==
  /\ "Gender" \in DOMAIN filter => voice.Gender = filter.Gender
  /\ "Locale" \in DOMAIN filter => voice.Locale = filter.Locale
  /\ "Language" \in DOMAIN filter => voice.Language = filter.Language

\* the positions of the catalogue find() has to return
WantedAt(filter) == {i \in DOMAIN voices : Wanted(voices[i], filter)}

\* result lists the catalogue's voices at the positions of `at`, in order
ListsInOrder(result, at) ==
  /\ Len(result) = Cardinality(at)
  /\ \A i \in at :
       result[Cardinality({j \in at : j <= i})] = voices[i]

\* C23: on a manager made by create(), find(filter) returns exactly the
\* catalogue's voices that equal the filter under every key it holds, in
\* catalogue order, Language being the part of Locale before the first
\* hyphen; on a manager not made by create() find throws and returns nothing.
C23_FindFilters ==
  /\ \A i \in DOMAIN voices : IsLanguageOf(voices[i].Language, voices[i].Locale)
  /\ findLast.called =>
       IF manager = "create"
       THEN /\ findLast.error = "none"
            /\ ListsInOrder(findLast.result, WantedAt(findLast.filter))
       ELSE findLast.error = "Error" /\ findLast.result = <<>>

\* a two-key filter picked the second of two voices of the same gender
C23_Witness ==
  /\ manager = "create" /\ findLast.called
  /\ DOMAIN findLast.filter = {"Gender", "Language"}
  /\ Len(voices) = 2 /\ voices[1].Gender = voices[2].Gender
  /\ findLast.result = <<voices[2]>>
  /\ voices[2].Locale = <<"zh", "-", "CN", "-", "liaoning">>

\* ===================================================================
\* Properties of repeated merging
\* ===================================================================
\* the cue list mergeCues(k) leaves when called on cs
Merged(cs, k) == mergeCues(cs, k).cues

\* the cues of both lists have the same contents and times, pairwise
SameContentsAndTimes(a, b) ==
  /\ Len(a) = Len(b)
  /\ \A i \in 1..Len(a) :
       /\ a[i].content = b[i].content
       /\ a[i].start = b[i].start /\ a[i].end = b[i].end

\* the last call was mergeCues(k) and it returned
JustMerged(k) ==
  /\ subLast.op = "mergeCues" /\ subLast.threw = "none"
  /\ subLog # <<>> /\ subLog[Len(subLog)] = SubCall("mergeCues", NoChunk, k)

\* C39: on every cue list the SubMaker can hold and for every k > 0,
\* mergeCues(k) applied twice leaves what it leaves applied once, mergeCues(1)
\* keeps the contents and times of every cue, and no mergeCues call adds a cue
\* or moves the first start or the last end; a mergeCues(k) call right after
\* a mergeCues(k) call changes nothing.
C39_MergeIdempotent ==
  /\ [](\A k \in 1..4 :
          LET once == Merged(cues, k) IN
          /\ Merged(once, k) = once
          /\ Len(once) <= Len(cues)
          /\ cues # <<>> =>
               /\ once # <<>>
               /\ once[1].start = cues[1].start
               /\ once[Len(once)].end = cues[Len(cues)].end)
  /\ [](SameContentsAndTimes(Merged(cues, 1), cues))
  /\ [](\A k \in -1..0 : Merged(cues, k) = cues)
  /\ [][\A k \in 1..3 : (JustMerged(k) /\ SubMerge(k)) => cues' = cues]_vars

\* six one-word cues were merged by three, and merged by three again
C39_Witness ==
  /\ Len(subLog) = 8
  /\ JustMerged(3)
  /\ subLog[7] = SubCall("mergeCues", NoChunk, 3)
  /\ Len(cues) = 2 /\ Len(subLast.before) = 2
  /\ Len(cues[1].content) = 3

\* ===================================================================
\* Properties of the text decoding
\* ===================================================================
\* the 0-based positions at which a blank line ("\r\n\r\n") starts
BlankLines(m) ==
  {i \in 0..(Len(m) - 4) : SubSeq(m, i + 1, i + 4) = CRLF \o CRLF}

FirstBlankLine(m) == MinOf(BlankLines(m))

\* the header lines of a message that holds a blank line
LinesOf(m) == split(SubSeq(m, 1, FirstBlankLine(m)), CRLF)

\* the 1-based position of the first ':' of a line (0: none)
FirstColon(line) ==
  IF \E k \in DOMAIN line : line[k] = ":"
  THEN MinOf({k \in DOMAIN line : line[k] = ":"})
  ELSE 0

KeyOf(line) == SubSeq(line, 1, FirstColon(line) - 1)

\* the whole text after the first ':' of the line, without outer blanks
ValueOf(line) == trimText(SubSeq(line, FirstColon(line) + 1, Len(line)))

\* a line "key:value" with a key and a value
IsHeaderLine(line) ==
  FirstColon(line) > 1 /\ FirstColon(line) < Len(line)

\* C40: for a message holding a blank line, a decoder returns as body exactly
\* the bytes after the first "\r\n\r\n" and maps the key of each header line
\* key:value (the last one of a key) to the whole text after the line's first
\* ':'; the Node and the browser decoder return the same for the same message.
C40_TextFrameDecoding ==
  BlankLines(textMessage) # {} =>
    /\ \A v \in TextDecoders :
         textDecoded[v].done =>
           /\ textDecoded[v].data =
                SubSeq(textMessage, FirstBlankLine(textMessage) + 5,
                       Len(textMessage))
           /\ \A i \in DOMAIN LinesOf(textMessage) :
                LET line == LinesOf(textMessage)[i] IN
                (/\ IsHeaderLine(line)
                 /\ \A j \in DOMAIN LinesOf(textMessage) :
                      j > i => ~(IsHeaderLine(LinesOf(textMessage)[j])
                                   /\ KeyOf(LinesOf(textMessage)[j]) = KeyOf(line)))
                  => /\ KeyOf(line) \in DOMAIN textDecoded[v].headers
                     /\ textDecoded[v].headers[KeyOf(line)] = ValueOf(line)
    /\ (textDecoded["node"].done /\ textDecoded["browser"].done)
         => textDecoded["node"] = textDecoded["browser"]

\* ===================================================================
\* Properties of the browser's segmenter
\* ===================================================================
\* C35: for every XML-escaped input and byteLength > 0, each segment the
\* browser's segmenter yields is at most byteLength bytes long, is cut at a
\* UTF-8 code-point boundary and holds no '&' without a ';' after it, and when
\* the generator has finished the segments concatenated in order, whitespace
\* ignored, are the input with whitespace ignored.
C35_BrowserSegmenterSafety ==
  (IsEscaped(text) /\ byteLength > 0) =>
    /\ \A i \in 1..Len(segments) :
         /\ Len(segments[i]) <= byteLength
         /\ WholeCodePoints(segments[i])
         /\ EntitiesTerminated(segments[i])
    /\ splitPc = "done" =>
         NonWhitespace(Concat(segments)) = NonWhitespace(text)

\* ===================================================================
\* Properties of listVoices
\* ===================================================================
\* the first request was refused with status 403
FirstForbidden ==
  responses # <<>> /\ ~responses[1].ok /\ responses[1].axios
    /\ responses[1].e.response /\ responses[1].status = 403

\* the refusal carries a Date header that is a date
FirstDateUsable ==
  responses[1].e.headers /\ responses[1].e.date.kind = "valid"

ListEnded == listPc \in {"returned", "threw"}

\* C38: listVoices issues at most two requests; a second request exists only
\* after the first was refused with 403 and the clock skew was adjusted from
\* the refusal's Date header, and its token is made with the adjusted skew;
\* every other failure of the first request, a failed adjustment, and any
\* failure of the second request end the call with that error; once the call
\* has ended no request is issued.
C38_ListVoicesRetry ==
  /\ [](Len(requests) <= 2)
  /\ [](Len(requests) = 2 =>
          /\ FirstForbidden /\ FirstDateUsable
          /\ ~drmClockSkewSeconds.nan
          /\ requests[2].skew = drmClockSkewSeconds
          /\ requests[2].token =
               StrToHash(getUnixTimestamp(requests[2].at, drmClockSkewSeconds)))
  /\ []((Len(responses) >= 1 /\ ~responses[1].ok
           /\ ~(FirstForbidden /\ FirstDateUsable))
          => listPc = "threw" /\ Len(requests) = 1)
  /\ []((Len(responses) = 2 /\ ~responses[2].ok) => listPc = "threw")
  /\ [][ListEnded => requests' = requests /\ listPc' = listPc]_vars

\* ===================================================================
\* Order of the events of a session
\* ===================================================================
\* a mark of the receive log made by a frame that queued an event
IsChunkMark(x) == x >= 0 \/ x = AudioMark

\* the marks of the frames session s received before the first frame that
\* queued an error
RECURSIVE BeforeBadFrame(_)
BeforeBadFrame(log) ==
  IF log = <<>> \/ Head(log) = BadFrameMark
  THEN <<>>
  ELSE <<Head(log)>> \o BeforeBadFrame(Tail(log))

ChunkMarks(log) == SelectSeq(log, IsChunkMark)

\* the mark the receive log holds for a queued event
MarkOf(e) == IF IsWB(e) THEN WBEnd(e) ELSE AudioMark

MarksOf(es) == [i \in 1..Len(es) |-> MarkOf(es[i])]

\* the session threw an error the 'message' listener had queued
ThrewQueuedFrameError(s) ==
  sessEnd[s] \in {"UnknownResponse", "UnexpectedResponse"}

Released(s) == websocket[s] \in {"closed", "closing", "aborting", "errored"}

\* the generator that ran stream() has returned or thrown
StreamTerminated == owner # 0 /\ gen[owner] \in {"done", "failed"}

\* C34 as stated: when a session has ended, normally or by throwing, its
\* WebSocket is closed or close() was called on it; once stream() has
\* terminated no connection of the instance is connecting or open and no
\* listener writes the instance state.
C34_TransportRelease ==
  /\ [](\A s \in Started : sessEnd[s] # "none" => Released(s))
  /\ [](StreamTerminated =>
          \A s \in Started : websocket[s] \notin {"connecting", "open"})
  /\ [][StreamTerminated => instVars' = instVars]_vars

\* ===================================================================
\* Properties of the classes fed the same events
\* ===================================================================
\* C36 as stated: after the same segments and the same transport events,
\* Communicate, IsomorphicCommunicate (under Node and in a browser) and
\* BrowserCommunicate have yielded the same events, with the same
\* WordBoundary offsets and durations, and have ended in the same way.
C36_SameAcrossVariants ==
  \A v, w \in Variants :
    /\ cmpRun[v].yielded = cmpRun[w].yielded
    /\ cmpRun[v].end = cmpRun[w].end

\* ===================================================================
\* Properties of the Blob frames
\* ===================================================================
\* the numbers of the valid audio frames the transport delivered
AudioFrames ==
  {n \in 1..Len(blobRecv) :
     handleBinary(blobRecv[n], 0, 0).push = <<AudioChunk>> /\ blobRecv[n].binary}

YieldedFrames == {blobYielded[i].n : i \in 1..Len(blobYielded)}

BlobSessionEnded == blobEnd # "none"

\* C33 as stated: whatever the order of the Blob conversions, messages and
\* the close event, the events are yielded in the order their frames were
\* received; when the session has ended every audio frame the transport
\* delivered has been yielded and none is still being converted; a session
\* that received a valid audio Blob does not end with NoAudioReceived.
C33_BlobFrames ==
  /\ \A i, j \in 1..Len(blobYielded) :
       i < j => blobYielded[i].n < blobYielded[j].n
  /\ BlobSessionEnded =>
       /\ AudioFrames \subseteq YieldedFrames
       /\ blobPending \cap AudioFrames = {}
  /\ blobEnd = "NoAudioReceived" => AudioFrames = {}

\* ===================================================================
\* Properties of two instances in one process
\* ===================================================================
\* one instance alone, fed the given transport events, its consumer pulling
RECURSIVE Replay(_, _)
Replay(st, events) ==
  IF events = <<>>
  THEN st
  ELSE Replay(IF Head(events).kind = "close"
              THEN onClose(st, MaxSegs)
              ELSE onMessage(st, Head(events).f, "node"),
              Tail(events))

\* what instance i would have done alone with the events it was fed
Alone(i) == Replay(Instance(1, 0, 0), duoFed[i])

\* the consumer of instance i has taken everything that was queued
CaughtUp(i) == duoOut[i].end # "none" \/ duoSess[i].queue = <<>>

\* instance i behaves as it would alone
AsAlone(i) ==
  /\ duoState[i].streamWasCalled = (duoSess[i].seg > 0)
  /\ duoState[i].offsetCompensation = Alone(i).comp
  /\ duoState[i].lastDurationOffset = Alone(i).ldo
  /\ IsPrefix(duoOut[i].yielded, Alone(i).yielded)
  /\ CaughtUp(i) =>
       /\ duoOut[i].yielded = Alone(i).yielded
       /\ duoOut[i].end = Alone(i).end

\* a step leaves everything instance j owns as it is
Untouched(j) ==
  /\ duoState'[j] = duoState[j] /\ duoSess'[j] = duoSess[j]
  /\ duoOut'[j] = duoOut[j] /\ duoFed'[j] = duoFed[j]

\* C37 as stated: each of two interleaved instances yields the events and
\* holds the offsetCompensation, lastDurationOffset and streamWasCalled it
\* would alone, and a step that writes something of one instance writes
\* nothing of the other and nothing else they share except
\* DRM.clockSkewSeconds.
C37_OnlyClockSkewShared ==
  /\ [](\A i \in Instances : AsAlone(i))
  /\ [][\A i \in Instances :
          ~Untouched(i) =>
            /\ \A j \in Instances \ {i} : Untouched(j)
            /\ duoAgent' = duoAgent]_vars

\* C37 (amended): each of two interleaved instances yields the events and
\* holds the offsetCompensation, lastDurationOffset and streamWasCalled it
\* would alone; a step that writes something of one instance writes nothing
\* of the other, and nothing else they share except DRM.clockSkewSeconds and
\* the module variable HttpsProxyAgent, which is set once, when an instance
\* that has a proxy starts a session.
C37_InstanceIndependence ==
  /\ [](\A i \in Instances : AsAlone(i))
  /\ [][\A i \in Instances :
          ~Untouched(i) => \A j \in Instances \ {i} : Untouched(j)]_vars
  /\ [][duoAgent' # duoAgent =>
          /\ ~duoAgent
          /\ \E i \in Instances :
               /\ duoState[i].proxy
               /\ duoSess'[i].seg = duoSess[i].seg + 1]_vars

C37_Witness ==
  /\ duoState[1].offsetCompensation > 0
  /\ duoState[2].offsetCompensation = 0 /\ duoSess[2].seg = 1
  /\ \E k \in 1..Len(duoOut[2].yielded) :
       /\ duoOut[2].yielded[k].type = "WordBoundary"
       /\ duoOut[2].yielded[k].offset = 0
  /\ duoAgent /\ duoState[2].proxy
  /\ duoSkew > 0

\* ===================================================================
\* Progress of the consumer
\* ===================================================================
\* the consumer pulled and the body of stream() is running
StreamRunning == owner # 0 /\ gen[owner] = "running"

\* stream() has terminated or handed an event to the consumer
PullAnswered == owner # 0 /\ gen[owner] \in {"suspendedYield", "done", "failed"}

\* C32 as stated: when every transport delivers its close or error event and
\* the consumer keeps pulling, every pull is answered and stream() terminates,
\* normally or by throwing, and every item pushed on a message queue is
\* eventually taken from it.
C32_NoLostWakeup ==
  /\ StreamRunning ~> PullAnswered
  /\ (owner # 0) ~> StreamTerminated
  /\ \A s \in Sessions : (messageQueue[s] # <<>>) ~> (messageQueue[s] = <<>>)

====
